---- MODULE Spec2Model ----
(***************************************************************************)
(* Model of the Shopee order ingestion service: the order repository       *)
(* (upsertOrder and its four statements groups), the tracking-number       *)
(* reconciliation of the order service, the per-order transactions of      *)
(* Step D, and the scheduler / queue / worker fan-out.                     *)
(*                                                                         *)
(* The database is the value db = [orders, logistics, items, histories],   *)
(* each a set of rows.  Rows carry the columns the statements of the       *)
(* source read or decide on; created_at / updated_at (CURRENT_TIMESTAMP)   *)
(* are not stored.  uuidv4() is modelled as "an id no row of the table     *)
(* (and no transaction in flight) holds".                                  *)
(***************************************************************************)
EXTENDS Integers, Sequences, FiniteSets, TLC

VARIABLES
    db,        \* committed database state
    last,      \* what the last repository / service call was and how it ended
    txs,       \* SpecConc: the concurrent save-order-tx transactions
    stepD,     \* SpecStepD: one _processOrderDetails invocation
    sched,     \* SpecQueue: OrderScheduler fields and pass positions
    queue,     \* SpecQueue: jobs of orderCollectionQueue (waiting/active/done)
    running,   \* SpecQueue: collectOrders invocations in progress
    co,        \* SpecCollect: one 'collect-shop-orders' job and its collectOrders call
    api,       \* SpecSandbox: the shopeeApi singleton and the handlers that use it
    wk,        \* SpecWorker: one worker process, its activeJobs and its handlers
    sup,       \* SpecShutdown: the supervisor process during handleShutdown
    master,    \* SpecMaster: the cluster master, its workers and workerMap
    sig,       \* SpecSign: two calls of _generateSignature
    tick,      \* SpecTick: the cron callback of OrderScheduler.start
    tok,       \* SpecToken: one validateToken call and the shop's stored row
    rt,        \* SpecRetry: one withRetry call
    pipe       \* SpecPipeline: the four queues and the processors of the process

vars == <<db, last, txs, stepD, sched, queue, running, co, api, wk, sup, master, sig, tick, tok, rt, pipe>>

NULL == "NULL"     \* JavaScript null / undefined, SQL NULL
NoId == 0          \* an id variable holding null

\* ---------------------------------------------------------------- bounds
MaxItems == 2        \* longest item list of an order detail
MaxHistories == 1    \* longest list of history events of a shipment

\* ---------------------------------------------------------------- domains
OrderSns    == {"A"}
Statuses    == {"READY_TO_SHIP", "PROCESSED", "SHIPPED", "COMPLETED", "CANCELLED"}
Carriers    == {"DHL"}       \* carrier of an order detail
Providers   == {"SPX"}       \* carrier named by a tracking response
TrackingNos == {"TN1", "TN2"}

\* item_sku values, and the item lists of an order detail: the first items of
\* the catalogue, in its order or in the reverse one.
Catalog   == <<"S1", "S2", "S3", "S4">>
Skus      == {Catalog[k] : k \in 1..MaxItems}
ItemLists ==
    {SubSeq(Catalog, 1, n) : n \in 0..MaxItems}
        \cup {[k \in 1..n |-> Catalog[MaxItems + 1 - k]] : n \in 1..MaxItems}

RECURSIVE SeqsUpTo(_, _)
SeqsUpTo(S, n) ==
    IF n = 0 THEN {<<>>}
    ELSE LET shorter == SeqsUpTo(S, n - 1)
         IN  shorter \cup {Append(s, x) : s \in {t \in shorter : Len(t) = n - 1}, x \in S}

\* One event of shipping.histories (orderService.js:499-504).
HistoryEvents == {[tracking_no |-> "TN1", tracking_date |-> 1, status |-> "PICKED_UP", location |-> "L1"]}

\* orderData.shipping; present = FALSE stands for shipping: null.
NoShipping == [present |-> FALSE, shipping_carrier_name |-> NULL, tracking_number |-> NULL,
               histories |-> <<>>]

\* What _extractShippingInfo returns: the carrier of the order detail, never a
\* tracking number or history events; null when the extraction throws.
ExtractedShippings ==
    {[NoShipping EXCEPT !.present = TRUE, !.shipping_carrier_name = c] : c \in Carriers \cup {NULL}}
        \cup {NoShipping}

\* The shipping objects upsertOrder accepts: also the shipmentMap entries the
\* earlier _processOrderDetails passes, with the tracking number and the history
\* events fetched by it.
Shippings ==
    {sh \in [present               : {TRUE},
             shipping_carrier_name : Carriers \cup {NULL},
             tracking_number       : {NULL, "TN1"},
             histories             : SeqsUpTo(HistoryEvents, MaxHistories)] :
        sh.tracking_number = NULL => sh.histories = <<>>}
        \cup {NoShipping}

\* formattedOrder, as built by _processOrderDetails and passed to upsertOrder.
Details ==
    [order_sn     : OrderSns,
     order_status : Statuses,
     shipping     : ExtractedShippings,
     items        : ItemLists]

\* Every orderData upsertOrder is defined for.
AnyDetails ==
    [order_sn     : OrderSns,
     order_status : Statuses,
     shipping     : Shippings,
     items        : ItemLists]

\* ---------------------------------------------------------------- ids
\* uuidv4(): an id that is not in `used`.
NewId(used) ==
    CHOOSE i \in 1..(Cardinality(used) + 1) :
        /\ i \notin used
        /\ \A j \in 1..(i - 1) : j \in used

Ids(rows) == {r.id : r \in rows}

EmptyDb == [orders |-> {}, logistics |-> {}, items |-> {}, histories |-> {}]

\* ---------------------------------------------------------------- statements
\* The statement of one upsertOrder call that the storage layer rejects, among
\* the statements the call for orderData issues ("none": no statement fails).
FailPointsOf(orderData) ==
    {"none", "order"}
        \cup (IF orderData.shipping.present THEN {"logistic"} ELSE {"defaultLogistic"})
        \cup (IF Len(orderData.shipping.histories) > 0 THEN {"history"} ELSE {})
        \cup (IF Len(orderData.items) > 0 THEN {"itemDelete", "itemInsert"} ELSE {})

\* State of a transaction while upsertOrder runs in it: the rows it sees, whether
\* a statement has already failed in it (PostgreSQL then rejects every further
\* statement and turns COMMIT into ROLLBACK), and whether the call has thrown.
Tx(d) == [db |-> d, aborted |-> FALSE, thrown |-> FALSE, orderId |-> NoId, logisticId |-> NoId]

Throw(t) == [t EXCEPT !.thrown = TRUE, !.aborted = TRUE]

\* A mapping that keeps the default for every order status.
actionStatusDefault(order_status) == "ORDER"

\* action_status / other_status mapping of _upsertOrderBasic.
actionStatus(order_status) ==
    CASE order_status = "READY_TO_SHIP" -> "READY_TO_PRINT"
      [] order_status = "SHIPPED"       -> "EXPORTED"
      [] order_status = "CANCELLED"     -> "REQUEST_CANCEL"
      [] OTHER                          -> "ORDER"

otherStatus == "NONE"

\* A lookup by order number that finds no row.
SelectNoOrder(d, order_sn) == {}

\* SELECT id FROM toms_shopee_order WHERE order_num = $1 AND platform = 'shopee'
SelectOrderByNum(d, order_sn) == {o \in d.orders : o.order_num = order_sn}

\* SELECT ... FROM toms_shopee_logistic WHERE toms_order_id = $1
SelectLogistic(d, orderId) == {l \in d.logistics : l.toms_order_id = orderId}

\* INSERT INTO toms_shopee_order ... ON CONFLICT (id) DO UPDATE SET status, action_status, ...
InsertOrderOnConflictId(d, orderId, orderData) ==
    LET hit == {o \in d.orders : o.id = orderId}
        row(o) == [o EXCEPT !.status        = orderData.order_status,
                            !.action_status = actionStatus(orderData.order_status),
                            !.other_status  = otherStatus]
        new == [id            |-> orderId,
                order_num     |-> orderData.order_sn,
                status        |-> orderData.order_status,
                action_status |-> actionStatus(orderData.order_status),
                other_status  |-> otherStatus]
    IN  [d EXCEPT !.orders = IF hit = {} THEN @ \cup {new}
                             ELSE (@ \ hit) \cup {row(o) : o \in hit}]

\* _upsertOrderBasic after the SELECT has resolved orderId: the INSERT ... ON CONFLICT.
upsertOrderBasic(t, orderData, orderId, fail) ==
    IF t.aborted \/ fail = "order" THEN Throw(t)
    ELSE [t EXCEPT !.db = InsertOrderOnConflictId(t.db, orderId, orderData), !.orderId = orderId]

\* A logistic INSERT that no conflict on toms_order_id stops.
InsertLogisticAlways(d, logisticId, orderId, name, tracking_no) ==
    [d EXCEPT !.logistics = @ \cup {[id |-> NewId(Ids(d.logistics)), toms_order_id |-> orderId,
                                     name |-> name, tracking_no |-> tracking_no]}]

\* INSERT INTO toms_shopee_logistic ... ON CONFLICT (toms_order_id) DO UPDATE SET name = $2, tracking_no = $3, ...
InsertLogisticOnConflictOrder(d, logisticId, orderId, name, tracking_no) ==
    LET hit == SelectLogistic(d, orderId)
        new == [id |-> logisticId, toms_order_id |-> orderId, name |-> name, tracking_no |-> tracking_no]
    IN  [d EXCEPT !.logistics =
            IF hit = {} THEN @ \cup {new}
            ELSE (@ \ hit) \cup {[l EXCEPT !.name = name, !.tracking_no = tracking_no] : l \in hit}]

\* _upsertLogistic(logisticData, orderId, dbOrTx)
upsertLogistic(t, logisticData, orderId, fail) ==
    IF t.aborted THEN Throw(t)
    ELSE LET existingLogistic == SelectLogistic(t.db, orderId)
             logisticId == IF existingLogistic = {} THEN NewId(Ids(t.db.logistics))
                           ELSE (CHOOSE l \in existingLogistic : TRUE).id
         IN  IF fail = "logistic" THEN Throw(t)
             ELSE [t EXCEPT !.db = InsertLogisticOnConflictOrder(t.db, logisticId, orderId,
                                        logisticData.shipping_carrier_name,
                                        logisticData.tracking_number),
                            !.logisticId = logisticId]

\* INSERT INTO toms_shopee_logistic (id, platform, toms_order_id, ...) : the synthetic empty row.
InsertEmptyLogistic(d, orderId) ==
    [d EXCEPT !.logistics = @ \cup {[id |-> NewId(Ids(d.logistics)), toms_order_id |-> orderId,
                                     name |-> NULL, tracking_no |-> NULL]}]

\* upsertOrder's branch for orderData.shipping absent (orderRepository.js:34-68).
defaultLogistic(t, orderId, fail) ==
    IF t.aborted THEN Throw(t)
    ELSE LET existingLogistic == SelectLogistic(t.db, orderId)
         IN  IF existingLogistic # {}
             THEN [t EXCEPT !.logisticId = (CHOOSE l \in existingLogistic : TRUE).id]
             ELSE IF fail = "defaultLogistic" THEN Throw(t)
             ELSE LET d2 == InsertEmptyLogistic(t.db, orderId)
                  IN  [t EXCEPT !.db = d2,
                                !.logisticId = (CHOOSE l \in SelectLogistic(d2, orderId) : TRUE).id]

\* The key _upsertLogisticHistories looks an event up by.
SelectHistory(d, logisticId, h) ==
    {r \in d.histories : /\ r.toms_logistic_id = logisticId
                         /\ r.tracking_no = h.tracking_no
                         /\ r.logistic_date = h.tracking_date
                         /\ r.logistic_status = h.status}

\* INSERT INTO toms_shopee_logistic_history ... ON CONFLICT (id) DO UPDATE SET location = $4
InsertHistoryOnConflictId(d, historyId, logisticId, h) ==
    LET hit == {r \in d.histories : r.id = historyId}
        new == [id |-> historyId, toms_logistic_id |-> logisticId, tracking_no |-> h.tracking_no,
                logistic_date |-> h.tracking_date, logistic_status |-> h.status,
                location |-> h.location]
    IN  [d EXCEPT !.histories = IF hit = {} THEN @ \cup {new}
                                ELSE (@ \ hit) \cup {[r EXCEPT !.location = h.location] : r \in hit}]

\* _upsertLogisticHistories: the SELECT of an event is outside the try block (it
\* throws in an aborted transaction); a failed INSERT is caught, logged and the
\* loop goes on (orderRepository.js:311-319).  fail = "history" rejects the
\* INSERT of the last event.
RECURSIVE upsertLogisticHistories(_, _, _, _, _)
upsertLogisticHistories(t, histories, i, logisticId, fail) ==
    IF i > Len(histories) THEN t
    ELSE IF t.aborted THEN Throw(t)
    ELSE LET h == histories[i]
             existingHistory == SelectHistory(t.db, logisticId, h)
             historyId == IF existingHistory = {} THEN NewId(Ids(t.db.histories))
                          ELSE (CHOOSE r \in existingHistory : TRUE).id
             t2 == IF fail = "history" /\ i = Len(histories)
                   THEN [t EXCEPT !.aborted = TRUE]
                   ELSE [t EXCEPT !.db = InsertHistoryOnConflictId(t.db, historyId, logisticId, h)]
         IN  upsertLogisticHistories(t2, histories, i + 1, logisticId, fail)

\* SELECT / DELETE ... FROM toms_shopee_order_item WHERE toms_order_id = $1
SelectItems(d, orderId) == {r \in d.items : r.toms_order_id = orderId}

DeleteItems(d, orderId) == [d EXCEPT !.items = @ \ SelectItems(d, orderId)]

\* uuidv4() for the item rows of one _upsertOrderItems call: ids <<g, i>> of a
\* generation g that no row of the table carried when the call began.
NewGeneration(held) ==
    CHOOSE g \in 0..Cardinality(held) :
        /\ \A id \in held : id[1] # g
        /\ \A k \in 0..(g - 1) : \E id \in held : id[1] = k

\* The insert loop of _upsertOrderItems; fail = "itemInsert" rejects the INSERT of
\* the last item (the earlier ones are already written in the transaction).
RECURSIVE insertItems(_, _, _, _, _, _, _, _)
insertItems(t, items, i, orderId, logisticId, trackingNo, held, fail) ==
    IF i > Len(items) THEN t
    ELSE IF fail = "itemInsert" /\ i = Len(items) THEN Throw(t)
    ELSE LET row == [id               |-> <<NewGeneration(held), i>>,
                     variation_sku    |-> items[i],
                     index            |-> i - 1,
                     tracking_no      |-> trackingNo,
                     toms_order_id    |-> orderId,
                     toms_logistic_id |-> logisticId]
         IN  insertItems([t EXCEPT !.db.items = @ \cup {row}], items, i + 1,
                         orderId, logisticId, trackingNo, held, fail)

\* _upsertOrderItems(items, orderId, companyId, dbOrTx)
upsertOrderItems(t, items, orderId, fail) ==
    IF t.aborted THEN Throw(t)
    ELSE LET logistic == SelectLogistic(t.db, orderId)
             d1 == IF logistic = {} THEN InsertEmptyLogistic(t.db, orderId) ELSE t.db
             logisticId == (CHOOSE l \in SelectLogistic(d1, orderId) : TRUE).id
             trackingNo == IF logistic = {} THEN NULL
                           ELSE (CHOOSE l \in logistic : TRUE).tracking_no
         IN  IF fail = "itemDelete" THEN Throw([t EXCEPT !.db = d1])
             ELSE insertItems([t EXCEPT !.db = DeleteItems(d1, orderId)], items, 1,
                              orderId, logisticId, trackingNo, Ids(t.db.items), fail)

\* upsertOrder(orderData, companyId, shopId, tx) from the resolved order id on:
\* the try block of orderRepository.js:18-79.  The result has thrown = TRUE when
\* the call rethrows (tx is given) and thrown = FALSE when it returns {orderId}.
upsertOrderFrom(d, orderData, orderId, fail) ==
    LET t1 == upsertOrderBasic(Tx(d), orderData, orderId, fail)
        t2 == IF t1.thrown THEN t1
              ELSE IF orderData.shipping.present
              THEN LET tl == upsertLogistic(t1, orderData.shipping, orderId, fail)
                   IN  IF tl.thrown \/ Len(orderData.shipping.histories) = 0 THEN tl
                       ELSE upsertLogisticHistories(tl, orderData.shipping.histories, 1,
                                                    tl.logisticId, fail)
              ELSE defaultLogistic(t1, orderId, fail)
    IN  IF t2.thrown THEN t2
        ELSE IF Len(orderData.items) > 0 THEN upsertOrderItems(t2, orderData.items, orderId, fail)
        ELSE t2

\* upsertOrder including the SELECT by order number of _upsertOrderBasic
\* (oneOrNone rejects when more than one row matches).
upsertOrder(d, orderData, fail) ==
    LET existingOrder == SelectOrderByNum(d, orderData.order_sn)
    IN  IF Cardinality(existingOrder) > 1 THEN Throw(Tx(d))
        ELSE upsertOrderFrom(d, orderData,
                             IF existingOrder = {} THEN NewId(Ids(d.orders))
                             ELSE (CHOOSE o \in existingOrder : TRUE).id,
                             fail)

\* A transaction whose writes stay although it failed.
KeepWrites(d, t) == t.db

\* db.tx(...): COMMIT when the callback resolved and no statement failed in the
\* transaction, ROLLBACK otherwise.
Committed(d, t) == IF t.thrown \/ t.aborted THEN d ELSE t.db

\* ---------------------------------------------------------------- tracking reconciliation
\* JavaScript's a || b on the values of the model: null and '' are falsy.
Falsy(x) == x \in {NULL, ""}

Or(a, b) == IF Falsy(a) THEN b ELSE a

\* What getTrackingInfo answers: response = FALSE stands for a failed call or an
\* envelope without response, otherwise the fields of the response.
NoTrackingInfo ==
    [response |-> FALSE, tracking_number |-> NULL, first_mile_tracking_number |-> NULL,
     last_mile_tracking_number |-> NULL, plp_number |-> NULL,
     shipping_provider_name |-> NULL, logistic_name |-> NULL]

TrackingInfos ==
    [response                   : {TRUE},
     tracking_number            : {NULL, "TN1"},
     first_mile_tracking_number : {NULL, "TN2"},
     last_mile_tracking_number  : {NULL},
     plp_number                 : {NULL},
     shipping_provider_name     : Providers \cup {""},
     logistic_name              : Providers \cup {NULL}]

\* orderService.js:426-429
trackingNumberOf(trackingInfo) ==
    Or(trackingInfo.tracking_number,
       Or(trackingInfo.first_mile_tracking_number,
          Or(trackingInfo.last_mile_tracking_number, trackingInfo.plp_number)))

\* orderService.js:445 (shipping_carrier_name of the shipmentMap entry); the
\* response fields after logistic_name are absent in the model.
carrierNameOf(trackingInfo) ==
    Or(trackingInfo.shipping_provider_name, Or(trackingInfo.logistic_name, NULL))

\* The entry _processTrackingInfoBatch creates in shipmentMap (orderService.js:350-359);
\* it has no orderSn, orderId or trackingNumber property.
EmptyShipment == [tracking_number |-> NULL, shipping_carrier_name |-> NULL,
                  orderSn |-> NULL, orderId |-> NoId, trackingNumber |-> NULL, carrierName |-> NULL]

CanHaveTracking == {"PROCESSED", "SHIPPED", "COMPLETED"}

\* A comparison that takes every answer for a new tracking number.
alwaysDiffers(currentTrackingNo, trackingNumber) == TRUE

\* currentTrackingNo !== trackingNumber (orderService.js:457)
trackingDiffers(currentTrackingNo, trackingNumber) == currentTrackingNo # trackingNumber

\* One iteration of the loop of _processTrackingInfoBatch for orderSn, given the
\* answer of getTrackingInfo: the shipmentMap entry and what is pushed onto
\* updatedOrders.  The LEFT JOIN yields one row per order row (toms_order_id is
\* unique); oneOrNone rejects on several rows and the catch goes on to the next order.
trackingLookup(d, orderSn, trackingInfo) ==
    LET orderResult == SelectOrderByNum(d, orderSn)
        o == CHOOSE x \in orderResult : TRUE
        l == SelectLogistic(d, o.id)
        currentTrackingNo == IF l = {} THEN NULL ELSE (CHOOSE x \in l : TRUE).tracking_no
        trackingNumber == trackingNumberOf(trackingInfo)
        none == [entry |-> EmptyShipment, updated |-> <<>>, called |-> FALSE, same |-> FALSE]
    IN  IF Cardinality(orderResult) # 1 THEN none
        ELSE IF o.status \notin CanHaveTracking THEN none
        ELSE IF ~trackingInfo.response THEN [none EXCEPT !.called = TRUE]
        ELSE IF Falsy(trackingNumber) THEN [none EXCEPT !.called = TRUE]
        ELSE [entry   |-> [EmptyShipment EXCEPT !.tracking_number = trackingNumber,
                                                !.shipping_carrier_name = carrierNameOf(trackingInfo)],
              updated |-> IF trackingDiffers(currentTrackingNo, trackingNumber)
                          THEN <<[orderSn |-> orderSn, orderId |-> o.id,
                                  trackingNumber |-> trackingNumber,
                                  carrierName |-> carrierNameOf(trackingInfo)]>>
                          ELSE <<>>,
              called  |-> TRUE,
              same    |-> currentTrackingNo = trackingNumber]

\* Statements of save-tracking-tx the storage layer may reject.
SaveFailPoints == {"none", "logistic", "items", "status"}

\* finalCarrierName (orderService.js:610-612)
finalCarrierName(existingName, carrierName) ==
    IF ~Falsy(existingName) THEN existingName ELSE Or(carrierName, NULL)

\* An item update that changes no row.
KeepItemsTracking(d, orderId, trackingNumber) == d

\* UPDATE toms_shopee_order_item SET tracking_no = $1 WHERE toms_order_id = $2
UpdateItemsTracking(d, orderId, trackingNumber) ==
    LET its == SelectItems(d, orderId)
    IN  [d EXCEPT !.items = (@ \ its) \cup {[r EXCEPT !.tracking_no = trackingNumber] : r \in its}]

\* The body of save-tracking-tx for one entry of updatedOrders
\* (orderService.js:595-667): the rows after it and the tables it wrote.
saveTrackingTx(d, order, fail) ==
    LET logisticResult == SelectLogistic(d, order.orderId)
        d1 == IF logisticResult # {}
              THEN [d EXCEPT !.logistics = (@ \ logisticResult) \cup
                        {[l EXCEPT !.tracking_no = order.trackingNumber,
                                   !.name = finalCarrierName(l.name, order.carrierName)]
                         : l \in logisticResult}]
              ELSE [d EXCEPT !.logistics = @ \cup
                        {[id |-> NewId(Ids(d.logistics)), toms_order_id |-> order.orderId,
                          name |-> Or(order.carrierName, NULL),
                          tracking_no |-> order.trackingNumber]}]
        d2 == UpdateItemsTracking(d1, order.orderId, order.trackingNumber)
        ord == {o \in d2.orders : o.id = order.orderId /\ o.status \notin {"SHIPPED", "COMPLETED"}}
        d3 == [d2 EXCEPT !.orders = (@ \ ord) \cup {[o EXCEPT !.status = "SHIPPED"] : o \in ord}]
    IN  IF fail = "logistic" THEN [db |-> d, thrown |-> TRUE, writes |-> {}]
        ELSE IF fail = "items" THEN [db |-> d1, thrown |-> TRUE, writes |-> {"logistic"}]
        ELSE IF fail = "status" /\ ord # {}
             THEN [db |-> d2, thrown |-> TRUE, writes |-> {"logistic", "item"}]
        ELSE [db |-> d3, thrown |-> FALSE,
              writes |-> {"logistic", "item"} \cup (IF ord # {} THEN {"order"} ELSE {})]

\* _saveTrackingNumbers(shop, updatedOrders): entries without orderSn, orderId or
\* trackingNumber are skipped; each other entry is saved in a transaction of its
\* own, and a failed transaction is logged and not counted.
RECURSIVE saveTrackingNumbers(_, _, _, _)
saveTrackingNumbers(r, updatedOrders, i, fail) ==
    IF i > Len(updatedOrders) THEN r
    ELSE LET order == updatedOrders[i]
             t == saveTrackingTx(r.db, order, fail)
         IN  IF Falsy(order.orderSn) \/ order.orderId = NoId \/ Falsy(order.trackingNumber)
             THEN saveTrackingNumbers(r, updatedOrders, i + 1, fail)
             ELSE saveTrackingNumbers(
                      [db         |-> IF t.thrown THEN r.db ELSE t.db,
                       savedCount |-> IF t.thrown THEN r.savedCount ELSE r.savedCount + 1,
                       writes     |-> r.writes \cup t.writes,
                       committed  |-> r.committed \cup (IF t.thrown THEN {} ELSE {order.orderId})],
                      updatedOrders, i + 1, fail)

SaveStart(d) == [db |-> d, savedCount |-> 0, writes |-> {}, committed |-> {}]

\* The shipment-info stage for a job that names one order (worker.js:247-254):
\* the loop of _processTrackingInfoBatch, its closing
\* _saveTrackingNumbers(shop, updatedOrders) (orderService.js:541-544), then
\* _saveTrackingNumbers(shop, Object.values(shipmentMap)).
shipmentInfoStage(d, orderSn, trackingInfo, fail) ==
    LET r  == trackingLookup(d, orderSn, trackingInfo)
        r1 == saveTrackingNumbers(SaveStart(d), r.updated, 1, fail)
        r2 == saveTrackingNumbers(r1, <<r.entry>>, 1, fail)
    IN  [db |-> r2.db, same |-> r.same, updated |-> r.updated,
         savedCount |-> r2.savedCount, writes |-> r2.writes]

\* fixIncompleteLogisticInfo(shop) (orderService.js:1122-1244).  Both SELECTs run
\* first; then every logistic row with a tracking number and no carrier gets the
\* carrier of its order detail, and every row with a carrier and no tracking
\* number gets the tracking number getTrackingInfo answers, as do the items of
\* its order.  detailOf and trackingOf give the answers of getOrderDetail and
\* getTrackingInfo per order number.  (The code takes at most 20 rows of each
\* SELECT; the tables of the model stay below that.)
fixIncompleteLogisticInfo(d, detailOf, trackingOf) ==
    LET orderOf(l) == CHOOSE o \in d.orders : o.id = l.toms_order_id
        joined == {l \in d.logistics : \E o \in d.orders : o.id = l.toms_order_id}
        missingCarrierRecords  == {l \in joined : ~Falsy(l.tracking_no) /\ Falsy(l.name)}
        missingTrackingRecords == {l \in joined : ~Falsy(l.name) /\ Falsy(l.tracking_no)}
        shippingInfo(l) == detailOf[orderOf(l).order_num].shipping
        trackingNumber(l) == trackingNumberOf(trackingOf[orderOf(l).order_num])
        carrierFixed == {l \in missingCarrierRecords :
                            /\ orderOf(l).order_num \in DOMAIN detailOf
                            /\ shippingInfo(l).present
                            /\ ~Falsy(shippingInfo(l).shipping_carrier_name)}
        trackingFixed == {l \in missingTrackingRecords :
                            /\ orderOf(l).order_num \in DOMAIN trackingOf
                            /\ trackingOf[orderOf(l).order_num].response
                            /\ ~Falsy(trackingNumber(l))}
        fixedRow(l) == IF l \in carrierFixed
                       THEN [l EXCEPT !.name = shippingInfo(l).shipping_carrier_name]
                       ELSE IF l \in trackingFixed
                       THEN [l EXCEPT !.tracking_no = trackingNumber(l)]
                       ELSE l
        fixedItem(r) == LET ls == {l \in trackingFixed : l.toms_order_id = r.toms_order_id}
                        IN  IF ls = {} THEN r
                            ELSE [r EXCEPT !.tracking_no = trackingNumber(CHOOSE l \in ls : TRUE)]
    IN  [d EXCEPT !.logistics = {fixedRow(l) : l \in d.logistics},
                  !.items     = {fixedItem(r) : r \in d.items}]

\* ---------------------------------------------------------------- Spec: repository and reconciliation
\* last: the call that made the last step.
\*   upsertOrder : thrown  - the call threw; aborted - a statement of it failed
\*   shipmentInfo: same    - getTrackingInfo answered the tracking number stored
\*                 pushed  - entries pushed onto updatedOrders
\*                 saved   - savedCount: save-tracking-tx transactions committed
LastInit == [op |-> "init", thrown |-> FALSE, aborted |-> FALSE,
             same |-> FALSE, pushed |-> 0, saved |-> 0]

\* One save-order-tx transaction of _processOrderDetails (orderService.js:228-292):
\* upsertOrder in a transaction, committed unless it threw or a statement failed.
SaveOrderTx(orderData, fail) ==
    LET t == upsertOrder(db, orderData, fail)
    IN  /\ db' = Committed(db, t)
        /\ last' = [LastInit EXCEPT !.op = "upsertOrder",
                                    !.thrown = t.thrown, !.aborted = t.aborted]
        /\ UNCHANGED <<txs, stepD, sched, queue, running, co, api, wk, sup, master, sig, tick, tok, rt, pipe>>

\* processShipmentInfo for a job that names one order.
ProcessShipmentInfo(orderSn, trackingInfo, fail) ==
    LET r == shipmentInfoStage(db, orderSn, trackingInfo, fail)
    IN  /\ db' = r.db
        /\ last' = [LastInit EXCEPT !.op = "shipmentInfo", !.same = r.same,
                                    !.pushed = Len(r.updated), !.saved = r.savedCount]
        /\ UNCHANGED <<txs, stepD, sched, queue, running, co, api, wk, sup, master, sig, tick, tok, rt, pipe>>

Init ==
    /\ db = EmptyDb
    /\ last = LastInit
    /\ tick = <<>>
    /\ tok = <<>>
    /\ rt = <<>>
    /\ pipe = <<>>
    /\ txs = <<>>
    /\ stepD = <<>>
    /\ sched = <<>>
    /\ queue = <<>>
    /\ running = <<>>
    /\ co = <<>>
    /\ api = <<>>
    /\ wk = <<>>
    /\ sup = <<>>
    /\ master = <<>>
    /\ sig = <<>>

Next ==
    \/ \E orderData \in Details : SaveOrderTx(orderData, "none")
    \/ \E orderSn \in OrderSns, trackingInfo \in TrackingInfos \cup {NoTrackingInfo},
          fail \in SaveFailPoints :
          ProcessShipmentInfo(orderSn, trackingInfo, fail)

Spec == Init /\ [][Next]_vars

\* ---------------------------------------------------------------- properties of Spec
\* The committed rows after a save-order-tx with upsertOrder(orderData) on d.
AfterUpsert(d, orderData) == Committed(d, upsertOrder(d, orderData, "none"))

\* An item row without its id (uuidv4) : its content and index.
ItemContent(d, orderId) ==
    {[variation_sku |-> r.variation_sku, index |-> r.index, tracking_no |-> r.tracking_no,
      toms_order_id |-> r.toms_order_id, toms_logistic_id |-> r.toms_logistic_id]
     : r \in SelectItems(d, orderId)}

\* C3: for every order detail D, from every reachable database, upsertOrder(D)
\* run twice in sequence leaves exactly one order row for D's order number, the
\* same item rows (content and index) as after the first call, and the second
\* call changes no stored column of the order row.
C3_Idempotent ==
    \A D \in AnyDetails :
        LET t1 == upsertOrder(db, D, "none")
            d1 == Committed(db, t1)
            t2 == upsertOrder(d1, D, "none")
            d2 == Committed(d1, t2)
            O  == t1.orderId
        IN  /\ ~t1.thrown /\ ~t2.thrown
            /\ Cardinality(SelectOrderByNum(d2, D.order_sn)) = 1
            /\ ItemContent(d2, O) = ItemContent(d1, O)
            /\ Cardinality(SelectItems(d2, O)) = Cardinality(SelectItems(d1, O))
            /\ d2.orders = d1.orders

\* C3 witness: an upsertOrder call has just committed on an order that already
\* existed with item rows (a repeated upsert of an order).
C3_Witness ==
    /\ last.op = "upsertOrder" /\ ~last.thrown
    /\ \E o \in db.orders : Cardinality(SelectItems(db, o.id)) = MaxItems
    /\ \E r \in db.items : r.id[1] > 0

\* C4: every order row has exactly one logistic row, after any sequence of
\* committed upsertOrder calls (shipping present or absent) mixed with
\* _saveTrackingNumbers calls.
C4_OneLogistic ==
    \A o \in db.orders : Cardinality(SelectLogistic(db, o.id)) = 1

\* C4 witness: an upsertOrder call has committed on an order whose logistic row
\* carries a tracking number written by _saveTrackingNumbers.
C4_Witness ==
    /\ last.op = "upsertOrder" /\ ~last.thrown
    /\ \E o \in db.orders : \E l \in SelectLogistic(db, o.id) : l.tracking_no \in TrackingNos

\* C5: after upsertOrder(D2) on an order that upsertOrder(D1) wrote, the order has
\* exactly the items of D2, with index 0..k-1 in D2's order, for every k >= 0
\* (k = 0 included): no item row of D1 survives.
C5_ItemsRewritten ==
    \A D2 \in AnyDetails :
        LET t2 == upsertOrder(db, D2, "none")
            d2 == Committed(db, t2)
            O  == t2.orderId
        IN  /\ Cardinality(SelectItems(d2, O)) = Len(D2.items)
            /\ {<<r.index, r.variation_sku>> : r \in SelectItems(d2, O)}
                   = {<<i - 1, D2.items[i]>> : i \in 1..Len(D2.items)}
            /\ SelectItems(d2, O) \cap SelectItems(db, O) = {}

\* The name of the logistic row of order orderId ("" when there is no row).
LogisticName(d, orderId) ==
    LET l == SelectLogistic(d, orderId)
    IN  IF l = {} THEN "" ELSE (CHOOSE x \in l : TRUE).name

\* C6: on each write path that updates an existing logistic row (the logistic
\* upsert of upsertOrder, and _saveTrackingNumbers), when the row's name is
\* non-empty and the incoming carrier name is null or empty, the name is
\* unchanged after the write.
C6_CarrierPreserved ==
    \A o \in db.orders :
        ~Falsy(LogisticName(db, o.id)) =>
            /\ \A D \in AnyDetails :
                   (D.order_sn = o.order_num /\ D.shipping.present
                        /\ Falsy(D.shipping.shipping_carrier_name))
                   => LogisticName(AfterUpsert(db, D), o.id) = LogisticName(db, o.id)
            /\ \A trackingInfo \in TrackingInfos, fail \in SaveFailPoints :
                   Falsy(carrierNameOf(trackingInfo))
                   => LogisticName(shipmentInfoStage(db, o.order_num, trackingInfo, fail).db, o.id)
                          = LogisticName(db, o.id)

\* C7: when getTrackingInfo answers the tracking number stored for the order's
\* logistic row, the shipment-info stage writes to no table and leaves every
\* row as it was.
C7_NoWriteWhenEqual ==
    \A orderSn \in OrderSns, trackingInfo \in TrackingInfos, fail \in SaveFailPoints :
        LET r == shipmentInfoStage(db, orderSn, trackingInfo, fail)
        IN  r.same => (r.writes = {} /\ r.db = db /\ r.savedCount = 0)

\* C7 witness: the stage has run with an answer equal to the stored tracking number.
C7_Witness ==
    /\ last.op = "shipmentInfo" /\ last.same
    /\ \E l \in db.logistics : l.tracking_no \in TrackingNos

\* C8: when the stage obtains a tracking number T that differs from the stored
\* one, then if the save transaction commits the logistic row and every item row
\* of the order carry T and the order is SHIPPED unless it was SHIPPED or
\* COMPLETED (then it keeps its status); if a statement of the transaction
\* fails, no row has changed.
C8_SaveEffect ==
    \A orderSn \in OrderSns, trackingInfo \in TrackingInfos, fail \in SaveFailPoints :
        LET r == shipmentInfoStage(db, orderSn, trackingInfo, fail)
            e == r.updated[1]
        IN  r.updated # <<>> =>
                IF r.savedCount = 0 THEN r.db = db
                ELSE /\ SelectLogistic(r.db, e.orderId) # {}
                     /\ \A l \in SelectLogistic(r.db, e.orderId) : l.tracking_no = e.trackingNumber
                     /\ \A it \in SelectItems(r.db, e.orderId) : it.tracking_no = e.trackingNumber
                     /\ Cardinality(SelectItems(r.db, e.orderId)) = Cardinality(SelectItems(db, e.orderId))
                     /\ \A o \in db.orders : o.id = e.orderId =>
                            \E o2 \in r.db.orders :
                                /\ o2.id = o.id
                                /\ o2.status = IF o.status \in {"SHIPPED", "COMPLETED"}
                                               THEN o.status ELSE "SHIPPED"

\* C8 witness: a save transaction has committed a tracking number on an order
\* that has item rows.
C8_Witness ==
    /\ last.op = "shipmentInfo" /\ last.pushed = 1 /\ last.saved = 1
    /\ \E r \in db.items : r.tracking_no \in TrackingNos

\* C19: after every committed upsertOrder the order row of the order number has
\* action_status READY_TO_PRINT for READY_TO_SHIP, EXPORTED for SHIPPED,
\* REQUEST_CANCEL for CANCELLED and ORDER for every other order status, and
\* other_status NONE; this holds for a new row and for a row that existed.
C19_StatusMapping ==
    \A D \in AnyDetails :
        LET t  == upsertOrder(db, D, "none")
            d1 == Committed(db, t)
            rows == {o \in d1.orders : o.order_num = D.order_sn}
        IN  ~(t.thrown \/ t.aborted) =>
                /\ rows # {}
                /\ \A o \in rows :
                      /\ o.action_status =
                            IF D.order_status = "READY_TO_SHIP" THEN "READY_TO_PRINT"
                            ELSE IF D.order_status = "SHIPPED" THEN "EXPORTED"
                            ELSE IF D.order_status = "CANCELLED" THEN "REQUEST_CANCEL"
                            ELSE "ORDER"
                      /\ o.other_status = "NONE"

\* C19 witness: an upsert has just stored a cancelled order, and the row carries
\* REQUEST_CANCEL.
C19_Witness ==
    /\ last.op = "upsertOrder" /\ ~last.thrown
    /\ \E o \in db.orders : o.status = "CANCELLED" /\ o.action_status = "REQUEST_CANCEL"

\* The direct path for one order of the window: collectOrders hands the order to
\* _processOrderDetails, whose save-order-tx upserts the order detail, and then
\* runs fixIncompleteLogisticInfo (orderService.js:103-122).
directPath(d, orderData, trackingInfo) ==
    LET d1 == Committed(d, upsertOrder(d, orderData, "none"))
    IN  fixIncompleteLogisticInfo(d1, [sn \in {orderData.order_sn} |-> orderData],
                                  [sn \in {orderData.order_sn} |-> trackingInfo])

\* The queue path for the same order: the 'collect-shop-orders' handler calls
\* collectOrders and adds a 'process-order-details' job for stats.orderSns
\* (worker.js:88-108); that handler runs _processOrderDetails again and adds a
\* 'process-shipment-info' job (worker.js:183-197), whose handler runs
\* _processTrackingInfoBatch and _saveTrackingNumbers (worker.js:247-254).  The
\* order number is on stats.orderSns when upsertOrder returned an order id.
queuePath(d, orderData, trackingInfo) ==
    LET t  == upsertOrder(d, orderData, "none")
        d1 == directPath(d, orderData, trackingInfo)
        d2 == Committed(d1, upsertOrder(d1, orderData, "none"))
        d3 == shipmentInfoStage(d2, orderData.order_sn, trackingInfo, "none").db
    IN  IF t.thrown THEN d1 ELSE d3

LogisticTrackingNo(d, orderId) ==
    LET l == SelectLogistic(d, orderId)
    IN  IF l = {} THEN "" ELSE (CHOOSE x \in l : TRUE).tracking_no

\* C27: upserting a stored order again from an order detail, which carries no
\* tracking number, keeps the order's id and leaves the tracking_no of its
\* logistic row as it was, also when reconciliation wrote it.
C27_ReingestKeepsTracking ==
    \A o \in db.orders : \A D \in Details :
        D.order_sn = o.order_num =>
            LET d2 == AfterUpsert(db, D)
            IN  /\ \A o2 \in SelectOrderByNum(d2, D.order_sn) : o2.id = o.id
                /\ LogisticTrackingNo(d2, o.id) = LogisticTrackingNo(db, o.id)

\* Every item row of d carries the tracking_no of its order's logistic row.
C33_Mirrored(d) ==
    \A r \in d.items : \A l \in SelectLogistic(d, r.toms_order_id) :
        r.tracking_no = l.tracking_no

\* C33: in every committed state reached through upsertOrder and
\* _saveTrackingNumbers, and after fixIncompleteLogisticInfo has run on it,
\* every item row of an order has the tracking_no of that order's logistic row.
C33_TrackingMirror ==
    /\ C33_Mirrored(db)
    /\ \A o \in db.orders : \A D \in Details :
          \A trackingInfo \in TrackingInfos \cup {NoTrackingInfo} :
              D.order_sn = o.order_num =>
                  C33_Mirrored(fixIncompleteLogisticInfo(db,
                      [sn \in {D.order_sn} |-> D], [sn \in {D.order_sn} |-> trackingInfo]))

\* C34: in every committed state the action_status of each order row is the
\* mapped value of its status (READY_TO_SHIP -> READY_TO_PRINT, SHIPPED ->
\* EXPORTED, CANCELLED -> REQUEST_CANCEL, otherwise ORDER), also after
\* _saveTrackingNumbers has moved the order to SHIPPED.
C34_ActionStatusMapped ==
    \A o \in db.orders : o.action_status = actionStatus(o.status)

\* ---------------------------------------------------------------- SpecFail: rejected statements
\* upsertOrder calls in which the storage layer rejects one statement.
FailDetails == {D \in AnyDetails : D.order_status \in {"READY_TO_SHIP", "SHIPPED"}}

NextFail ==
    \E orderData \in FailDetails : \E fail \in FailPointsOf(orderData) :
        SaveOrderTx(orderData, fail)

SpecFail == Init /\ [][NextFail]_vars

\* C10: when a statement of upsertOrder fails (order upsert, logistic upsert, a
\* history insert, item delete or an item insert), upsertOrder throws to its
\* caller; it never returns {orderId} after a failed statement.
C10_FailurePropagates ==
    (last.op = "upsertOrder" /\ last.aborted) => last.thrown

\* ---------------------------------------------------------------- SpecConc: concurrent save-order-tx
\* Transactions that run upsertOrder at the same time (jobs of different workers,
\* or of one worker with concurrency > 1).  Under READ COMMITTED the SELECT of
\* _upsertOrderBasic sees the rows committed when it runs; the statements after
\* it and COMMIT are taken as one step.  The statements name the arbiters they
\* rely on: ON CONFLICT (id) for the order, ON CONFLICT (toms_order_id) for the
\* logistic; no statement names a constraint on order_num.
MaxTxs == 2          \* transactions in flight

TxSlots == 1..MaxTxs

ConcDetails ==
    {D \in Details : /\ D.order_status \in {"READY_TO_SHIP", "SHIPPED"}
                      /\ D.shipping.shipping_carrier_name = NULL
                      /\ Len(D.items) <= 1 /\ (Len(D.items) = 1 => D.items[1] = "S1")}

IdleTx == [pc |-> "idle", orderData |-> CHOOSE D \in ConcDetails : TRUE, orderId |-> NoId]

\* Order ids minted by transactions that have not committed yet.
MintedIds == {txs[i].orderId : i \in {k \in TxSlots : txs[k].pc = "selected"}}

\* db.tx begins and _upsertOrderBasic resolves the order id (orderRepository.js:105-110).
TxSelect(i, orderData) ==
    LET existingOrder == SelectOrderByNum(db, orderData.order_sn)
    IN  /\ txs[i].pc = "idle"
        /\ txs' = [txs EXCEPT ![i] =
               IF Cardinality(existingOrder) > 1 THEN [IdleTx EXCEPT !.pc = "failed"]
               ELSE [pc        |-> "selected",
                     orderData |-> orderData,
                     orderId   |-> IF existingOrder = {}
                                   THEN NewId(Ids(db.orders) \cup MintedIds)
                                   ELSE (CHOOSE o \in existingOrder : TRUE).id]]
        /\ UNCHANGED <<db, last, stepD, sched, queue, running, co, api, wk, sup, master, sig, tick, tok, rt, pipe>>

\* The INSERT ... ON CONFLICT (id) and the rest of upsertOrder, then COMMIT.
TxWrite(i) ==
    LET t == upsertOrderFrom(db, txs[i].orderData, txs[i].orderId, "none")
    IN  /\ txs[i].pc = "selected"
        /\ db' = Committed(db, t)
        /\ txs' = [txs EXCEPT ![i] = [IdleTx EXCEPT !.pc = IF t.thrown THEN "failed" ELSE "committed"]]
        /\ UNCHANGED <<last, stepD, sched, queue, running, co, api, wk, sup, master, sig, tick, tok, rt, pipe>>

\* The job ends; the worker takes the next one.
TxEnd(i) ==
    /\ txs[i].pc \in {"committed", "failed"}
    /\ txs' = [txs EXCEPT ![i] = IdleTx]
    /\ UNCHANGED <<db, last, stepD, sched, queue, running, co, api, wk, sup, master, sig, tick, tok, rt, pipe>>

InitConc ==
    /\ db = EmptyDb
    /\ last = LastInit
    /\ tick = <<>>
    /\ tok = <<>>
    /\ rt = <<>>
    /\ pipe = <<>>
    /\ txs = [i \in TxSlots |-> IdleTx]
    /\ stepD = <<>>
    /\ sched = <<>>
    /\ queue = <<>>
    /\ running = <<>>
    /\ co = <<>>
    /\ api = <<>>
    /\ wk = <<>>
    /\ sup = <<>>
    /\ master = <<>>
    /\ sig = <<>>

NextConc ==
    \/ \E i \in TxSlots, orderData \in ConcDetails : TxSelect(i, orderData)
    \/ \E i \in TxSlots : TxWrite(i)
    \/ \E i \in TxSlots : TxEnd(i)

SpecConc == InitConc /\ [][NextConc]_vars

\* C2: after any sequence and interleaving of upsertOrder transactions the order
\* table holds at most one row per (platform = 'shopee', order_num).
C2_OneRowPerOrderNum ==
    \A sn \in OrderSns : Cardinality(SelectOrderByNum(db, sn)) <= 1

\* ---------------------------------------------------------------- SpecStepD: _processOrderDetails
\* One invocation of _processOrderDetails(shop, orderSns, stats): batches of
\* batchSize order numbers, getOrderDetail per batch, one save-order-tx per order
\* of the answer.  It starts on the rows that earlier invocations stored.
MaxStepOrders == 3   \* order numbers handed to one invocation
StepBatchSize == 2   \* batchSize (50 in orderService.js:187), scaled
batchSize == 2       \* config.scheduler.batchSize (50 in config.js:40), scaled

SnNames == <<"A", "B", "C", "D", "E", "F", "G", "H", "I">>

StepInputs == {SubSeq(SnNames, 1, n) : n \in 0..MaxStepOrders}

\* The order details getOrderDetail may answer for order number sn.
StepDetailsOf(sn) ==
    {[order_sn     |-> sn,
      order_status |-> st,
      shipping     |-> [NoShipping EXCEPT !.present = TRUE, !.shipping_carrier_name = "DHL"],
      items        |-> <<"S1">>] : st \in {"READY_TO_SHIP", "SHIPPED"}}

\* A statement of upsertOrder, or COMMIT, that the storage layer rejects.
StepFailPoints == {"none", "order", "logistic", "itemDelete", "itemInsert", "commit"}

NewStats == [success |-> 0, failed |-> 0, orderSns |-> <<>>]

\* open  : order numbers whose save-order-tx has begun and not yet settled
\* events: the getOrderDetail calls and 500 ms pauses of the batch loop, in order
\* stepE : order numbers whose tracking lookup has started, in order
\* committed : order numbers whose save-order-tx has committed
\* detailJobs: the orderSns lists of the 'process-order-details' jobs added
StepIdle == [pc |-> "idle", orderSns |-> <<>>, i |-> 0, j |-> 0,
             stats |-> NewStats, seen |-> <<>>, lost |-> {}, lastTx |-> "none",
             open |-> {}, events |-> <<>>, stepE |-> <<>>,
             committed |-> {}, detailJobs |-> <<>>]

Min(a, b) == IF a < b THEN a ELSE b

\* orderSns.slice(i, i + batchSize)
batchOrderSns(orderSns, i) == SubSeq(orderSns, i + 1, Min(i + StepBatchSize, Len(orderSns)))

\* The for loop's i += batchSize and its test i < orderSns.length.
NextBatch(sd) ==
    [sd EXCEPT !.i = sd.i + StepBatchSize, !.j = 0,
               !.pc = IF sd.i + StepBatchSize < Len(sd.orderSns) THEN "fetch" ELSE "done"]

\* await new Promise(resolve => setTimeout(resolve, 500)) at the end of the loop
\* body (orderService.js:317-318).
Sleep(sd) == [sd EXCEPT !.events = Append(@, "sleep")]

\* A call of db.tx whose promise the loop does not wait for: the loop goes on
\* with the next order while the transaction is open.
dontAwaitTx(sd) ==
    IF sd.j < Len(batchOrderSns(sd.orderSns, sd.i)) THEN [sd EXCEPT !.j = @ + 1]
    ELSE NextBatch(Sleep(sd))

\* await db.tx('save-order-tx', ...) (orderService.js:228): the loop is suspended
\* until the transaction has settled.
awaitTx(sd) == [sd EXCEPT !.pc = "tx"]

\* _processOrderDetails is called (orderService.js:179-194).
StepStart(orderSns, hasCompanyId) ==
    /\ stepD.pc = "idle"
    /\ stepD' = [StepIdle EXCEPT !.orderSns = orderSns,
                                 !.pc = IF ~hasCompanyId THEN "thrown"
                                        ELSE IF Len(orderSns) > 0 THEN "fetch" ELSE "done"]
    /\ UNCHANGED <<db, last, txs, sched, queue, running, co, api, wk, sup, master, sig, tick, tok, rt, pipe>>

\* getOrderDetail for the batch at i (orderService.js:196-217, 306-315).
FetchBatch(outcome) ==
    LET batch == batchOrderSns(stepD.orderSns, stepD.i)
        lost  == {batch[k] : k \in 1..Len(batch)}
        called == [stepD EXCEPT !.events = Append(@, "getOrderDetail"), !.lastTx = "none"]
    IN  /\ stepD.pc = "fetch"
        /\ stepD' =
              CASE outcome = "order_list" -> [called EXCEPT !.pc = "orders", !.j = 1]
                [] outcome = "no_list" ->   \* continue (orderService.js:212)
                      NextBatch([called EXCEPT !.lost = @ \cup lost])
                [] outcome = "error" ->     \* catch (batchError), then the pause
                      NextBatch(Sleep([called EXCEPT !.lost = @ \cup lost,
                                                     !.stats.failed = @ + Len(batch)]))
        /\ UNCHANGED <<db, last, txs, sched, queue, running, co, api, wk, sup, master, sig, tick, tok, rt, pipe>>

\* db.tx('save-order-tx', ...) is called for the j-th order of the batch
\* (orderService.js:222-228).
TxBegin ==
    LET batch == batchOrderSns(stepD.orderSns, stepD.i)
    IN  /\ stepD.pc = "orders"
        /\ stepD' = awaitTx([stepD EXCEPT !.open = @ \cup {batch[stepD.j]}])
        /\ UNCHANGED <<db, last, txs, sched, queue, running, co, api, wk, sup, master, sig, tick, tok, rt, pipe>>

\* The save-order-tx of the j-th order of the batch settles, and the loop goes on
\* (orderService.js:228-305, 317-318).
SaveOrder(orderData, fail) ==
    LET batch    == batchOrderSns(stepD.orderSns, stepD.i)
        orderSn  == batch[stepD.j]
        t        == upsertOrder(db, orderData, fail)
        rejected == t.thrown \/ t.aborted \/ fail = "commit"
        stats1   == IF t.thrown THEN stepD.stats
                    ELSE [stepD.stats EXCEPT !.success = @ + 1, !.orderSns = Append(@, orderSn)]
        stats2   == IF rejected THEN [stats1 EXCEPT !.failed = @ + 1] ELSE stats1
        sd       == [stepD EXCEPT !.stats = stats2, !.seen = Append(@, orderSn),
                                  !.open = @ \ {orderSn},
                                  !.committed = IF rejected THEN @ ELSE @ \cup {orderSn},
                                  !.lastTx = IF rejected THEN "rolledback" ELSE "committed"]
    IN  /\ stepD.pc = "tx"
        /\ orderData.order_sn = orderSn
        /\ db' = IF fail = "commit" THEN db ELSE Committed(db, t)
        /\ stepD' = IF stepD.j < Len(batch) THEN [sd EXCEPT !.j = @ + 1, !.pc = "orders"]
                    ELSE NextBatch(Sleep(sd))
        /\ UNCHANGED <<last, txs, sched, queue, running, co, api, wk, sup, master, sig, tick, tok, rt, pipe>>

\* processOrderDetails, after _processOrderDetails has returned, adds the
\* 'process-shipment-info' job for the same order numbers (worker.js:183-197).
AddShipmentJob ==
    /\ stepD.pc = "done"
    /\ stepD' = [stepD EXCEPT !.pc = "queued"]
    /\ UNCHANGED <<db, last, txs, sched, queue, running, co, api, wk, sup, master, sig, tick, tok, rt, pipe>>

\* The batches of the fan-out loop from index i on (worker.js:96-98):
\* for (i = 0; i < orderSns.length; i += batchSize) orderSns.slice(i, i + batchSize)
RECURSIVE detailBatches(_, _)
detailBatches(orderSns, i) ==
    IF i < Len(orderSns)
    THEN <<SubSeq(orderSns, i + 1, Min(i + batchSize, Len(orderSns)))>>
             \o detailBatches(orderSns, i + batchSize)
    ELSE <<>>

\* processOrderCollection, after collectOrders has returned success with the
\* stats of the invocation, adds one 'process-order-details' job per batch of
\* stats.orderSns, and none when the list is empty (worker.js:90-109).
AddDetailJobs ==
    /\ stepD.pc = "done"
    /\ stepD' = [stepD EXCEPT !.pc = "fanned",
                              !.detailJobs = IF Len(stepD.stats.orderSns) > 0
                                             THEN detailBatches(stepD.stats.orderSns, 0)
                                             ELSE <<>>]
    /\ UNCHANGED <<db, last, txs, sched, queue, running, co, api, wk, sup, master, sig, tick, tok, rt, pipe>>

\* What getTrackingInfo answers in the shipment-info job of the invocation.
StepTrackingInfos ==
    {NoTrackingInfo, [NoTrackingInfo EXCEPT !.response = TRUE, !.tracking_number = "TN1"]}

\* processShipmentInfo takes the next order number of the job: the tracking
\* lookup and the saving of its answer (worker.js:247-254).  The code saves after
\* the lookups of all order numbers; the lookups and saves of different orders
\* touch different rows, so the order-by-order result is the same.
ShipmentInfo(trackingInfo) ==
    LET orderSn == stepD.orderSns[Len(stepD.stepE) + 1]
    IN  /\ stepD.pc = "queued"
        /\ Len(stepD.stepE) < Len(stepD.orderSns)
        /\ db' = shipmentInfoStage(db, orderSn, trackingInfo, "none").db
        /\ stepD' = [stepD EXCEPT !.stepE = Append(@, orderSn)]
        /\ UNCHANGED <<last, txs, sched, queue, running, co, api, wk, sup, master, sig, tick, tok, rt, pipe>>

\* The rows stored by earlier invocations: the first n order numbers, each as
\* the upsert of one of its order details left it.
RECURSIVE StoredUpTo(_)
StoredUpTo(n) ==
    IF n = 0 THEN {EmptyDb}
    ELSE {Committed(d, upsertOrder(d, D, "none")) :
              d \in StoredUpTo(n - 1), D \in StepDetailsOf(SnNames[n])}

InitStepD ==
    /\ db \in UNION {StoredUpTo(n) : n \in 0..MaxStepOrders}
    /\ last = LastInit
    /\ tick = <<>>
    /\ tok = <<>>
    /\ rt = <<>>
    /\ pipe = <<>>
    /\ txs = <<>>
    /\ stepD = StepIdle
    /\ sched = <<>>
    /\ queue = <<>>
    /\ running = <<>>
    /\ co = <<>>
    /\ api = <<>>
    /\ wk = <<>>
    /\ sup = <<>>
    /\ master = <<>>
    /\ sig = <<>>

NextStepD ==
    \/ \E orderSns \in StepInputs, hasCompanyId \in BOOLEAN : StepStart(orderSns, hasCompanyId)
    \/ \E outcome \in {"order_list", "no_list", "error"} : FetchBatch(outcome)
    \/ TxBegin
    \/ \E sn \in {SnNames[k] : k \in 1..MaxStepOrders} :
          \E orderData \in StepDetailsOf(sn), fail \in StepFailPoints : SaveOrder(orderData, fail)
    \/ AddShipmentJob
    \/ AddDetailJobs
    \/ \E trackingInfo \in StepTrackingInfos : ShipmentInfo(trackingInfo)

SpecStepD == InitStepD /\ [][NextStepD]_vars

\* A step in which the save-order-tx of the current order failed.
C9_Step ==
    stepD'.lastTx = "rolledback" /\ stepD'.seen # stepD.seen =>
        LET batch == batchOrderSns(stepD.orderSns, stepD.i)
        IN  /\ db' = db
            /\ stepD'.stats.failed = stepD.stats.failed + 1
            /\ stepD'.seen = Append(stepD.seen, batch[stepD.j])
            /\ IF stepD.j < Len(batch)
               THEN stepD'.pc = "orders" /\ stepD'.i = stepD.i /\ stepD'.j = stepD.j + 1
               ELSE /\ stepD'.i = stepD.i + StepBatchSize
                    /\ stepD'.pc = IF stepD'.i < Len(stepD.orderSns) THEN "fetch" ELSE "done"

\* When the invocation returns, a transaction has run for every order number of
\* every batch that getOrderDetail answered with a list.
C9_Done ==
    stepD.pc = "done" =>
        /\ \A k \in 1..Len(stepD.orderSns) :
               (stepD.orderSns[k] \in stepD.lost)
                   # (\E m \in 1..Len(stepD.seen) : stepD.seen[m] = stepD.orderSns[k])
        /\ Len(stepD.seen) + Cardinality(stepD.lost) = Len(stepD.orderSns)

\* C9: when the save-order-tx of one order of a batch fails, no row has changed,
\* stats.failed grows by exactly 1, and the loop goes on with the next order of
\* the batch or the next batch, so that every order of every answered batch gets
\* its transaction.
C9_FailureIsolated == [][C9_Step]_vars /\ [](C9_Done)

\* C9 witness: an invocation over two batches has returned in which the
\* transaction of the first order failed and the transactions of the orders
\* after it, in the same batch and in the next one, committed.
C9_Witness ==
    /\ stepD.pc = "done" /\ stepD.lost = {}
    /\ Len(stepD.seen) = MaxStepOrders
    /\ stepD.stats.failed = 1
    /\ stepD.stats.orderSns = Tail(stepD.seen)
    /\ Cardinality(db.orders) = MaxStepOrders - 1

\* C22: the save-order-tx transactions of one invocation never overlap, and the
\* tracking lookup for an order number starts only when no transaction of the
\* invocation is open and every order of an answered batch has had its
\* transaction settle.
C22_StepOrdering ==
    /\ Cardinality(stepD.open) <= 1
    /\ stepD.stepE # <<>> =>
          /\ stepD.open = {}
          /\ \A k \in 1..Len(stepD.stepE) :
                 \/ stepD.stepE[k] \in stepD.lost
                 \/ \E m \in 1..Len(stepD.seen) : stepD.seen[m] = stepD.stepE[k]

\* C22 witness: an invocation whose two batches each had a transaction settle
\* has handed its order numbers on, and the tracking lookup has started for the
\* last of them.
C22_Witness ==
    /\ stepD.pc = "queued"
    /\ Len(stepD.seen) = MaxStepOrders
    /\ Len(stepD.stepE) = MaxStepOrders

\* C30: between two consecutive getOrderDetail calls of one invocation there is
\* a 500 ms pause.
C30_PacedCalls ==
    \A k \in 1..(Len(stepD.events) - 1) :
        ~(stepD.events[k] = "getOrderDetail" /\ stepD.events[k + 1] = "getOrderDetail")

\* The lists of a sequence of lists, one after the other.
RECURSIVE C35_Concat(_)
C35_Concat(lists) ==
    IF lists = <<>> THEN <<>> ELSE Head(lists) \o C35_Concat(Tail(lists))

\* The jobs added are a partition of stats.orderSns into lists of 1 to
\* batchSize order numbers, in order; none is added before the fan-out.
C35_Partition ==
    /\ stepD.pc # "fanned" => stepD.detailJobs = <<>>
    /\ stepD.pc = "fanned" =>
          /\ C35_Concat(stepD.detailJobs) = stepD.stats.orderSns
          /\ \A k \in 1..Len(stepD.detailJobs) :
                 Len(stepD.detailJobs[k]) \in 1..batchSize

\* C35: the 'process-order-details' jobs added after a successful collection
\* carry, one after the other, exactly stats.orderSns, each with 1 to batchSize
\* order numbers, and no such job is added when the collection failed or has
\* persisted no order.
C35_FanOutPartition ==
    /\ C35_Partition
    /\ stepD.committed = {} => stepD.detailJobs = <<>>

\* C39: when _processOrderDetails has returned, stats.success is the length of
\* stats.orderSns, every order number on stats.orderSns has a committed order
\* row, and no order is counted as success and as failed: the two counters
\* together count at most the order numbers handed in.
C39_StatsConsistent ==
    stepD.pc = "done" =>
        /\ stepD.stats.success = Len(stepD.stats.orderSns)
        /\ \A k \in 1..Len(stepD.stats.orderSns) :
               \E o \in db.orders : o.order_num = stepD.stats.orderSns[k]
        /\ stepD.stats.success + stepD.stats.failed <= Len(stepD.orderSns)

\* ---------------------------------------------------------------- SpecQueue: scheduler, queue, workers
\* OrderScheduler in the master process, orderCollectionQueue, and the handlers
\* of 'collect-shop-orders' and 'manual-order-collect' jobs in the workers.
MaxJobs == 2         \* jobs of orderCollectionQueue waiting or active at a time
MaxDrops == 1        \* cron ticks dropped by the isRunning guard in one behaviour
concurrency == 5     \* config.scheduler.concurrency
maxRetryCount == 3   \* config.scheduler.maxRetryCount, and attempts of defaultJobOptions

Shops == {"s1", "s2"}

\* A pass of the scheduler that registers jobs: the cron tick or _initialRun.
Passes == {"tick", "initial"}

PassOff == [pc |-> "off", shops |-> {}]

\* sched.enabled: config.cluster.enabled.  sched.drops counts the ticks dropped.
\* sched.master: Master.start() has run in cluster mode.
SchedInit(enabled) ==
    [isRunning |-> FALSE, currentJobs |-> {}, enabled |-> enabled, started |-> FALSE,
     master |-> FALSE, pass |-> [p \in Passes |-> PassOff], drops |-> 0]

\* Jobs waiting or active, and add calls that have not resolved yet.
Load ==
    Cardinality(queue \cup running)
        + Cardinality({<<p, shop>> \in Passes \X Shops :
                          sched.pass[p].pc = "adding" /\ shop \in sched.pass[p].shops})

\* A job enters the waiting list.  Jobs are told apart by id; the id is the
\* least one that no job with the same name, shop and attempts carries.
Enqueue(q, held, job) ==
    LET k == CHOOSE n \in 1..(Cardinality(held) + 1) :
                 /\ [job EXCEPT !.id = n] \notin held
                 /\ \A m \in 1..(n - 1) : [job EXCEPT !.id = m] \in held
    IN  q \cup {[job EXCEPT !.id = k]}

\* orderCollectionQueue.add(name, {shopId}, opts) for the shops of `shops`: every
\* call creates a job of its own (no jobId option is given).
AddJobs(q, held, name, shops) ==
    q \cup UNION {Enqueue({}, held, [id |-> NoId, name |-> name, shopId |-> shop, attemptsMade |-> 0])
                  : shop \in shops}

\* start(): the cron job is scheduled and _initialRun() is called without await;
\* _initialRun awaits getActiveShops (orderScheduler.js:19-28, 67, 74-82).
Start(shops) ==
    /\ ~sched.started
    /\ sched' = [sched EXCEPT !.started = TRUE,
                              !.pass["initial"] = IF shops = {} THEN PassOff
                                                  ELSE [pc |-> "shops", shops |-> shops]]
    /\ UNCHANGED <<db, last, txs, stepD, queue, running, co, api, wk, sup, master, sig, tick, tok, rt, pipe>>

\* main() with config.cluster.enabled false: the scheduler is started in the
\* process itself (index.js:26-32; Master.start does the same, master.js:177-180).
MainStandalone(shops) ==
    /\ ~sched.enabled
    /\ Start(shops)

\* main() with config.cluster.enabled true in the master process: it loads
\* master.js, whose Master.start() forks the workers and starts the API server
\* (index.js:13-21, master.js:173-186); orderScheduler.start() is not called.
MainCluster ==
    /\ sched.enabled /\ ~sched.master
    /\ sched' = [sched EXCEPT !.master = TRUE]
    /\ UNCHANGED <<db, last, txs, stepD, queue, running, co, api, wk, sup, master, sig, tick, tok, rt, pipe>>

\* The cron callback while isRunning is false: it sets isRunning and awaits
\* getActiveShops; with no active shop it clears isRunning and returns
\* (orderScheduler.js:29-48).
TickBegin(shops) ==
    /\ sched.started /\ ~sched.isRunning
    /\ sched.pass["tick"].pc = "off"
    /\ shops # {}
    /\ sched' = [sched EXCEPT !.isRunning = TRUE,
                              !.pass["tick"] = [pc |-> "shops", shops |-> shops]]
    /\ UNCHANGED <<db, last, txs, stepD, queue, running, co, api, wk, sup, master, sig, tick, tok, rt, pipe>>

\* A tick that finds isRunning set, yet goes on to load the shops.
TickDropLoads ==
    /\ sched.started /\ sched.isRunning
    /\ sched.drops < MaxDrops
    /\ sched' = [sched EXCEPT !.drops = @ + 1,
                              !.pass["tick"] = [pc |-> "shops", shops |-> Shops \ @.shops]]
    /\ UNCHANGED <<db, last, txs, stepD, queue, running, co, api, wk, sup, master, sig, tick, tok, rt, pipe>>

\* The cron callback while isRunning is true: the tick is skipped
\* (orderScheduler.js:31-36).
TickDrop ==
    /\ sched.started /\ sched.isRunning
    /\ sched.drops < MaxDrops
    /\ sched' = [sched EXCEPT !.drops = @ + 1]
    /\ UNCHANGED <<db, last, txs, stepD, queue, running, co, api, wk, sup, master, sig, tick, tok, rt, pipe>>

\* The pass calls _addOrderCollectionJobsToQueue or _collectOrdersForShops: the
\* callbacks of shops.map run up to their await of orderCollectionQueue.add.  In
\* _collectOrdersForShops a shop found in currentJobs is skipped and the others
\* are put into it (orderScheduler.js:107-112, 143-161).
PassAdd(p) ==
    LET shops == IF sched.enabled THEN sched.pass[p].shops
                 ELSE sched.pass[p].shops \ sched.currentJobs
    IN  /\ sched.pass[p].pc = "shops"
        /\ Load + Cardinality(shops) <= MaxJobs
        /\ sched' = [sched EXCEPT !.pass[p] = [pc |-> "adding", shops |-> shops],
                                  !.currentJobs = IF sched.enabled THEN @ ELSE @ \cup shops]
        /\ UNCHANGED <<db, last, txs, stepD, queue, running, co, api, wk, sup, master, sig, tick, tok, rt, pipe>>

\* The add calls of the pass resolve: the jobs are in the queue, the finally
\* blocks delete the shops from currentJobs, and the tick clears isRunning
\* (orderScheduler.js:114-135, 161-184, 58-63).
PassAdded(p) ==
    /\ sched.pass[p].pc = "adding"
    /\ queue' = AddJobs(queue, queue \cup running, "collect-shop-orders", sched.pass[p].shops)
    /\ sched' = [sched EXCEPT !.pass[p] = PassOff,
                              !.currentJobs = IF sched.enabled THEN @ ELSE @ \ sched.pass[p].shops,
                              !.isRunning = IF p = "tick" THEN FALSE ELSE @]
    /\ UNCHANGED <<db, last, txs, stepD, running, co, api, wk, sup, master, sig, tick, tok, rt, pipe>>

\* runForShop(shopId): refused while the shop is in currentJobs, otherwise a
\* 'manual-order-collect' job is added (orderScheduler.js:192-234).
RunForShop(shopId) ==
    /\ sched.started
    /\ shopId \notin sched.currentJobs
    /\ Load < MaxJobs
    /\ queue' = AddJobs(queue, queue \cup running, "manual-order-collect", {shopId})
    /\ UNCHANGED <<db, last, txs, stepD, sched, running, co, api, wk, sup, master, sig, tick, tok, rt, pipe>>

\* POST /order/collect/:shopId adds a 'manual-order-collect' job (index.js:137-148).
PostCollect(shopId) ==
    /\ Load < MaxJobs
    /\ queue' = AddJobs(queue, queue \cup running, "manual-order-collect", {shopId})
    /\ UNCHANGED <<db, last, txs, stepD, sched, running, co, api, wk, sup, master, sig, tick, tok, rt, pipe>>

\* A worker takes a waiting job: each of the two processors registered on the
\* queue runs up to `concurrency` handlers at a time (worker.js:351-359), and
\* processOrderCollection calls collectOrders for the job's shop (worker.js:47-85).
WorkerTake(job) ==
    /\ job \in queue
    /\ Cardinality({r \in running : r.name = job.name}) < concurrency
    /\ queue' = queue \ {job}
    /\ running' = running \cup {job}
    /\ UNCHANGED <<db, last, txs, stepD, sched, co, api, wk, sup, master, sig, tick, tok, rt, pipe>>

\* collectOrders returns and the handler resolves; the job is removed
\* (worker.js:85-136).
WorkerDone(job) ==
    /\ job \in running
    /\ running' = running \ {job}
    /\ UNCHANGED <<db, last, txs, stepD, sched, queue, co, api, wk, sup, master, sig, tick, tok, rt, pipe>>

\* The handler throws (worker.js:137-139): the queue runs the job again after the
\* backoff until its attempts are used up.
WorkerThrow(job) ==
    /\ job \in running
    /\ running' = running \ {job}
    /\ queue' = IF job.attemptsMade + 1 < maxRetryCount
                THEN Enqueue(queue, queue \cup running, [job EXCEPT !.attemptsMade = @ + 1])
                ELSE queue
    /\ UNCHANGED <<db, last, txs, stepD, sched, co, api, wk, sup, master, sig, tick, tok, rt, pipe>>

InitQueue ==
    /\ db = EmptyDb
    /\ last = LastInit
    /\ tick = <<>>
    /\ tok = <<>>
    /\ rt = <<>>
    /\ pipe = <<>>
    /\ txs = <<>>
    /\ stepD = <<>>
    /\ \E enabled \in BOOLEAN : sched = SchedInit(enabled)
    /\ queue = {}
    /\ running = {}
    /\ co = <<>>
    /\ api = <<>>
    /\ wk = <<>>
    /\ sup = <<>>
    /\ master = <<>>
    /\ sig = <<>>

NextQueue ==
    \/ \E shops \in SUBSET Shops : MainStandalone(shops)
    \/ MainCluster
    \/ \E shops \in SUBSET Shops : TickBegin(shops)
    \/ TickDrop
    \/ \E p \in Passes : PassAdd(p)
    \/ \E p \in Passes : PassAdded(p)
    \/ \E shopId \in Shops : RunForShop(shopId)
    \/ \E shopId \in Shops : PostCollect(shopId)
    \/ \E job \in queue : WorkerTake(job)
    \/ \E job \in running : WorkerDone(job)
    \/ \E job \in running : WorkerThrow(job)

SpecQueue == InitQueue /\ [][NextQueue]_vars

\* C1: for every shop, at most one collectOrders invocation (a handler of a
\* 'collect-shop-orders' or 'manual-order-collect' job) is in progress at a time.
C1_SingleFlight ==
    \A shopId \in Shops : Cardinality({r \in running : r.shopId = shopId}) <= 1

\* C17: a cron tick that fires while isRunning is true is dropped: the step
\* loads no shops (the tick pass stays where it is), enqueues no job and leaves
\* isRunning and currentJobs unchanged.
C17_TickDropped ==
    [][(sched.isRunning /\ sched'.drops # sched.drops)
          => /\ sched'.pass = sched.pass
             /\ queue' = queue
             /\ sched'.isRunning = sched.isRunning
             /\ sched'.currentJobs = sched.currentJobs]_vars

\* C17 witness: a tick was dropped while the pass of an earlier tick was still
\* registering its jobs.
C17_Witness ==
    /\ sched.drops > 0 /\ sched.isRunning
    /\ sched.pass["tick"].pc = "adding"

\* C18: in cluster mode the master process starts the scheduler: once
\* Master.start() has run, the scheduler is started (its cron job is scheduled
\* and the initial run is under way), so that jobs get enqueued.
C18_MasterStartsScheduler ==
    sched.master => sched.started

\* C32: the start-up pass and the cron ticks exclude each other: while
\* _initialRun is loading shops or adding jobs, no pass of a cron tick is under
\* way (a tick that fires is skipped).
C32_StartupExcludesTick ==
    sched.pass["initial"].pc # "off" => sched.pass["tick"].pc = "off"

\* ---------------------------------------------------------------- SpecCollect: one collect-shop-orders job
\* processOrderCollection(job) of a worker and the collectOrders(shop) call it
\* makes: the shop row, the retry loop around getOrderList, Step D and
\* fixIncompleteLogisticInfo, and what the handler does with the result.
MaxPages == 2        \* pages of the time window at the marketplace
PageSize == 1        \* page_size (100 in orderService.js:89), scaled
now == 1000          \* Math.floor(Date.now() / 1000)

MAX_RETRY == maxRetryCount

\* The rows of shopee_shop joined with company_platform (orderService.js:33-38).
ShopRows ==
    [access_token  : {NULL, "T1"},
     expire_at     : {now + 100, now + 1000},
     refresh_token : {"R1"},
     companyid     : {NULL, "c1"}]

\* The condition under which validateToken refreshes (shopeeApi.js:425).
NeedsRefresh(shop) == Falsy(shop.access_token) \/ shop.expire_at < now + 300

\* seq cut into pieces of n elements (Array.prototype.slice in a loop).
Chunks(seq, n) ==
    [k \in 1..((Len(seq) + n - 1) \div n) |-> SubSeq(seq, (k - 1) * n + 1, Min(k * n, Len(seq)))]

\* The orders of the time window as the marketplace pages them.
Windows == {Chunks(SubSeq(SnNames, 1, n), PageSize) : n \in 0..(MaxPages * PageSize)}

WindowSns == {SnNames[k] : k \in 1..(MaxPages * PageSize)}

RECURSIVE AllOf(_)
AllOf(window) == IF window = <<>> THEN {}
                 ELSE {Head(window)[k] : k \in 1..Len(Head(window))} \cup AllOf(Tail(window))

\* The body get_order_list answers for a cursor ('' is 0): shopeeApi.getOrderList
\* sends cursor: params.cursor || '' and returns response.data.
getOrderList(window, cursor) ==
    [error       |-> "",
     response    |-> TRUE,
     order_list  |-> IF cursor < Len(window) THEN window[cursor + 1] ELSE <<>>,
     more        |-> cursor + 1 < Len(window),
     next_cursor |-> cursor + 1]

\* No body yet, and a body that carries an error and no response.
NoBody == [error |-> "", response |-> FALSE, order_list |-> <<>>, more |-> FALSE,
           next_cursor |-> 0]

ErrorBody == [NoBody EXCEPT !.error = "auth"]

\* The order detail get_order_detail answers for an order of the window.
CollectDetailOf(sn) ==
    [order_sn |-> sn, order_status |-> "SHIPPED",
     shipping |-> [NoShipping EXCEPT !.present = TRUE, !.shipping_carrier_name = "DHL"],
     items |-> <<"S1">>]

CollectTrackingInfos ==
    {NoTrackingInfo,
     [NoTrackingInfo EXCEPT !.response = TRUE, !.tracking_number = "TN1",
                            !.shipping_provider_name = "SPX"]}

\* The save-order-tx transactions of _processOrderDetails for the order numbers
\* of `saved`, in the order of orderSns.
RECURSIVE StoreAll(_, _, _, _)
StoreAll(d, orderSns, i, saved) ==
    IF i > Len(orderSns) THEN d
    ELSE StoreAll(IF orderSns[i] \in saved
                  THEN Committed(d, upsertOrder(d, CollectDetailOf(orderSns[i]), "none"))
                  ELSE d,
                  orderSns, i + 1, saved)

\* co.pc: queued, begin (collectOrders entered), list (about to call
\* getOrderList), details (about to call _processOrderDetails), catch (in the
\* catch of the retry loop), returned (collectOrders returned), ended.
\* co.cursors: the cursor of every getOrderList call; co.tokens: its access token.
\* co.refreshCalls: calls of refreshAccessToken; co.waits: the backoff waits in ms.
\* co.error: where the error being caught was raised.
CoInit(shop, window) ==
    [pc |-> "queued", shop |-> shop, window |-> window, job |-> "waiting", attemptsMade |-> 0,
     retryCount |-> 0, cursors |-> <<>>, tokens |-> <<>>, refreshCalls |-> 0, waits |-> <<>>,
     body |-> NoBody, orderSns |-> <<>>, handed |-> {}, error |-> "none",
     exhausted |-> FALSE,
     result |-> "none", stats |-> [total |-> 0, orderSns |-> <<>>], detailJobs |-> <<>>]

\* The handler starts (worker.js:47-85): it looks the shop up and throws when it
\* is in neither getShopById nor the active shops; the queue then runs the job
\* again while attempts remain (attempts: maxRetryCount, orderScheduler.js:118).
HandlerStart(found) ==
    /\ co.pc = "queued"
    /\ co' = IF found THEN [co EXCEPT !.pc = "begin", !.job = "active"]
             ELSE [co EXCEPT !.attemptsMade = @ + 1, !.job = "failed",
                             !.pc = IF co.attemptsMade + 1 < maxRetryCount
                                    THEN "queued" ELSE "ended"]
    /\ UNCHANGED <<db, last, txs, stepD, sched, queue, running, api, wk, sup, master, sig, tick, tok, rt, pipe>>

\* collectOrders up to the retry loop (orderService.js:14-78): the shop row is
\* read; a database error, no row or no access token returns success: false.
CollectBegin(lookup) ==
    /\ co.pc = "begin"
    /\ co' = IF lookup = "row" /\ ~Falsy(co.shop.access_token)
             THEN [co EXCEPT !.pc = "list"]
             ELSE [co EXCEPT !.pc = "returned", !.result = "failure"]
    /\ UNCHANGED <<db, last, txs, stepD, sched, queue, running, api, wk, sup, master, sig, tick, tok, rt, pipe>>

\* One getOrderList call of the loop (orderService.js:79-110): it is made with
\* validShop.access_token and no cursor.  It throws, or answers a body; a body
\* without response or with an empty order_list returns success: true.
GetOrderListCall(outcome) ==
    LET body == IF outcome = "envelope" THEN ErrorBody ELSE getOrderList(co.window, 0)
        c == [co EXCEPT !.cursors = Append(@, 0), !.tokens = Append(@, co.shop.access_token)]
    IN  /\ co.pc = "list"
        /\ co' = IF outcome = "throw" THEN [c EXCEPT !.pc = "catch", !.error = "getOrderList"]
                 ELSE IF ~body.response \/ Len(body.order_list) = 0
                 THEN [c EXCEPT !.body = body, !.pc = "returned", !.result = "success"]
                 ELSE [c EXCEPT !.body = body, !.pc = "details",
                                !.orderSns = body.order_list,
                                !.stats.total = Len(body.order_list)]
        /\ UNCHANGED <<db, last, txs, stepD, sched, queue, running, api, wk, sup, master, sig, tick, tok, rt, pipe>>

\* _processOrderDetails(validShop, orderSns, stats), fixIncompleteLogisticInfo and
\* the break (orderService.js:112-122, 189-195): without a company id Step D
\* throws into the catch of the loop; otherwise the orders of `saved` are stored
\* and pushed onto stats.orderSns, and collectOrders returns success: true.
ProcessDetails(saved, trackingInfo) ==
    LET inSaved(sn) == sn \in saved
        d1 == StoreAll(db, co.orderSns, 1, saved)
        sns == {co.orderSns[k] : k \in 1..Len(co.orderSns)}
    IN  /\ co.pc = "details"
        /\ saved \subseteq sns
        /\ IF Falsy(co.shop.companyid)
           THEN /\ co' = [co EXCEPT !.pc = "catch", !.error = "processOrderDetails"]
                /\ db' = db
           ELSE /\ co' = [co EXCEPT !.pc = "returned", !.result = "success",
                                    !.handed = @ \cup sns,
                                    !.stats.orderSns = SelectSeq(co.orderSns, inSaved)]
                /\ db' = fixIncompleteLogisticInfo(d1, [sn \in sns |-> CollectDetailOf(sn)],
                                                   [sn \in sns |-> trackingInfo])
        /\ UNCHANGED <<last, txs, stepD, sched, queue, running, api, wk, sup, master, sig, tick, tok, rt, pipe>>

\* A catch that passes the last error on to the caller.
rethrowLast(c) ==
    [c EXCEPT !.pc = "thrown", !.result = "thrown", !.exhausted = TRUE]

\* return { success: false, error: ..., stats } once the retry budget is used up
\* (orderService.js:126-139).
returnFailure(c) ==
    [c EXCEPT !.pc = "returned", !.result = "failure", !.exhausted = TRUE]

\* The catch of the loop (orderService.js:123-152): retryCount++; past MAX_RETRY
\* collectOrders returns success: false, otherwise it waits
\* Math.pow(2, retryCount) * 1000 ms and the loop calls getOrderList again.
CatchRetry ==
    LET retryCount == co.retryCount + 1
    IN  /\ co.pc = "catch"
        /\ co' = IF retryCount > MAX_RETRY
                 THEN returnFailure([co EXCEPT !.retryCount = retryCount])
                 ELSE [co EXCEPT !.retryCount = retryCount, !.pc = "list",
                                 !.waits = Append(@, (2 ^ retryCount) * 1000)]
        /\ UNCHANGED <<db, last, txs, stepD, sched, queue, running, api, wk, sup, master, sig, tick, tok, rt, pipe>>

\* The handler after collectOrders returned (worker.js:88-135): on success it adds
\* a 'process-order-details' job per batch of stats.orderSns, on failure it logs;
\* either way it returns { success: true } and the job completes.
HandlerReturn ==
    /\ co.pc = "returned"
    /\ co' = [co EXCEPT !.pc = "ended", !.job = "completed",
                        !.detailJobs = IF co.result = "success"
                                       THEN Chunks(co.stats.orderSns, StepBatchSize)
                                       ELSE <<>>]
    /\ UNCHANGED <<db, last, txs, stepD, sched, queue, running, api, wk, sup, master, sig, tick, tok, rt, pipe>>

InitCollect ==
    /\ db = EmptyDb
    /\ last = LastInit
    /\ tick = <<>>
    /\ tok = <<>>
    /\ rt = <<>>
    /\ pipe = <<>>
    /\ txs = <<>>
    /\ stepD = <<>>
    /\ sched = <<>>
    /\ queue = <<>>
    /\ running = <<>>
    /\ \E shop \in ShopRows, window \in Windows : co = CoInit(shop, window)
    /\ api = <<>>
    /\ wk = <<>>
    /\ sup = <<>>
    /\ master = <<>>
    /\ sig = <<>>

NextCollect ==
    \/ \E found \in BOOLEAN : HandlerStart(found)
    \/ \E lookup \in {"row", "none", "dberror"} : CollectBegin(lookup)
    \/ \E outcome \in {"body", "envelope", "throw"} : GetOrderListCall(outcome)
    \/ \E saved \in SUBSET WindowSns, trackingInfo \in CollectTrackingInfos :
          ProcessDetails(saved, trackingInfo)
    \/ CatchRetry
    \/ HandlerReturn

SpecCollect == InitCollect /\ [][NextCollect]_vars

\* C11: when collectOrders has returned success from a window the marketplace
\* answered, every order number of every page of the window was handed to
\* Step D, and each getOrderList call after a page with more = true carried that
\* page's next_cursor.
C11_AllPagesHanded ==
    (co.pc \in {"returned", "ended"} /\ co.result = "success" /\ co.body.response)
        => co.handed = AllOf(co.window)

\* C12: when getOrderList answered a body with a non-empty error field, the
\* shop cycle does not report success, the job attempt is not recorded as
\* completed, and no row was written.
C12_ErrorEnvelopeFails ==
    (co.pc \in {"returned", "ended"} /\ co.cursors # <<>> /\ co.body.error # "")
        => /\ co.result = "failure"
           /\ co.job # "completed"
           /\ db = EmptyDb

\* C13: for a shop whose access token is absent or expires within 300 s,
\* refreshAccessToken is called before the first getOrderList call and that
\* call carries the newly issued token, not the stored one.
C13_RefreshBeforeList ==
    (NeedsRefresh(co.shop) /\ co.tokens # <<>>)
        => co.refreshCalls > 0 /\ co.tokens[1] # co.shop.access_token

\* C14: getOrderList is called at most MAX_RETRY + 1 times in one collectOrders
\* invocation, and the wait after the n-th failed attempt (n = 0 for the first)
\* is 1000 * 2^n ms.
C14_RetryBudgetBackoff ==
    /\ Len(co.cursors) <= MAX_RETRY + 1
    /\ \A k \in 1..Len(co.waits) : co.waits[k] = 1000 * (2 ^ (k - 1))

\* C15: a job whose getOrderList attempts all failed, so that the retry budget of
\* the step ran out, ends as failed, never as completed.
C15_ExhaustedFailsJob ==
    (co.pc = "ended" /\ co.exhausted /\ ~co.body.response) => co.job = "failed"

\* C16: an error raised after getOrderList succeeded (by _processOrderDetails) is
\* not retried by the loop: the step that handles it adds no backoff wait and
\* returns from collectOrders instead of going back to getOrderList.
C16_RetryOnlyForList ==
    [][(co.pc = "catch" /\ co.error = "processOrderDetails")
          => (co'.waits = co.waits /\ co'.pc = "returned")]_vars

\* Every awaited call of the handler and of collectOrders settles (the query,
\* the marketplace request with its timeout, the backoff timer), and the event
\* loop then runs the continuation: weak fairness on the steps of the job.
SpecCollectLive == SpecCollect /\ WF_vars(NextCollect)

\* C38: whatever the shop lookup, getOrderList and Step D do, collectOrders
\* ends: it never throws to its caller, and once begun it returns, with
\* success true or success false.
C38_CollectTotal ==
    /\ [](co.pc # "thrown" /\ co.result \in {"none", "success", "failure"})
    /\ [](co.pc = "returned" => co.result \in {"success", "failure"})
    /\ (co.pc = "begin" ~> co.pc = "returned")

\* collectOrders has returned success: false after getOrderList threw on the
\* first call and on every retry.
C38_Witness ==
    /\ co.pc = "returned"
    /\ co.result = "failure"
    /\ co.exhausted
    /\ Len(co.cursors) = MAX_RETRY + 1

\* ---------------------------------------------------------------- SpecSandbox: the shared shopeeApi object
\* services/shopeeApi.js exports one ShopeeApi object per process; every handler
\* of the process calls the marketplace through it.  collectOrders stores the
\* shop's issandbox flag in its isSandbox field; _callApi derives the base URL
\* from that field when the request is made.  The handlers of a worker run
\* interleaved at their awaits (queue.process(name, concurrency, handler)).
MaxHandlers == 2     \* handlers in flight in one process (concurrency is 5), scaled
MaxCalls == 2        \* marketplace requests of one handler

SandboxUrl == "https://partner.test-stable.shopeemobile.com"
LiveUrl    == "https://partner.shopeemobile.com"

\* issandbox of the company_platform row of each shop.
IsSandboxOf == [S1 |-> TRUE, S2 |-> FALSE]

\* collect : collectShopOrders -> collectOrders (getOrderList, ...)
\* details : processOrderDetails -> _processOrderDetails (getOrderDetail)
\* shipment: processShipmentInfo -> _processTrackingInfoBatch (getTrackingInfo)
HandlerKinds == {"collect", "details", "shipment"}

IdleHandler == [pc |-> "idle", shop |-> NULL, kind |-> NULL, calls |-> 0]

\* this.baseUrl = this.isSandbox ? sandbox : live (shopeeApi.js:76-78)
baseUrlOf(isSandbox) == IF isSandbox THEN SandboxUrl ELSE LiveUrl

\* new ShopeeApi(): isSandbox = config.shopee.isSandbox (shopeeApi.js:9-21).
ApiInit(isSandbox) ==
    [isSandbox |-> isSandbox, baseUrl |-> baseUrlOf(isSandbox),
     h |-> [k \in 1..MaxHandlers |-> IdleHandler], requests |-> {}]

\* A handler starts for a job of shop (worker.js:47, 149, 213).
ApiHandlerStart(k, shop, kind) ==
    /\ api.h[k].pc = "idle"
    /\ api' = [api EXCEPT !.h[k] = [pc |-> IF kind = "collect" THEN "lookup" ELSE "calling",
                                    shop |-> shop, kind |-> kind, calls |-> 0]]
    /\ UNCHANGED <<db, last, txs, stepD, sched, queue, running, co, wk, sup, master, sig, tick, tok, rt, pipe>>

\* collectOrders, after the shop row is read:
\* shopeeApi.isSandbox = validShop.issandbox === true (orderService.js:56-58).
SetSandbox(k) ==
    /\ api.h[k].pc = "lookup"
    /\ api' = [api EXCEPT !.isSandbox = IsSandboxOf[api.h[k].shop], !.h[k].pc = "calling"]
    /\ UNCHANGED <<db, last, txs, stepD, sched, queue, running, co, wk, sup, master, sig, tick, tok, rt, pipe>>

\* _callApi (shopeeApi.js:73-82): the base URL is taken from isSandbox as it is
\* now, and the request goes to it.
CallApi(k) ==
    /\ api.h[k].pc = "calling"
    /\ api.h[k].calls < MaxCalls
    /\ api' = [api EXCEPT !.baseUrl = baseUrlOf(api.isSandbox),
                          !.requests = @ \cup {[shop |-> api.h[k].shop,
                                                baseUrl |-> baseUrlOf(api.isSandbox)]},
                          !.h[k].calls = @ + 1]
    /\ UNCHANGED <<db, last, txs, stepD, sched, queue, running, co, wk, sup, master, sig, tick, tok, rt, pipe>>

\* The handler returns or throws.
ApiHandlerEnd(k) ==
    /\ api.h[k].pc \in {"lookup", "calling"}
    /\ api' = [api EXCEPT !.h[k] = IdleHandler]
    /\ UNCHANGED <<db, last, txs, stepD, sched, queue, running, co, wk, sup, master, sig, tick, tok, rt, pipe>>

InitSandbox ==
    /\ db = EmptyDb
    /\ last = LastInit
    /\ tick = <<>>
    /\ tok = <<>>
    /\ rt = <<>>
    /\ pipe = <<>>
    /\ txs = <<>>
    /\ stepD = <<>>
    /\ sched = <<>>
    /\ queue = <<>>
    /\ running = <<>>
    /\ co = <<>>
    /\ \E isSandbox \in BOOLEAN : api = ApiInit(isSandbox)
    /\ wk = <<>>
    /\ sup = <<>>
    /\ master = <<>>
    /\ sig = <<>>

NextSandbox ==
    \/ \E k \in 1..MaxHandlers, shop \in DOMAIN IsSandboxOf, kind \in HandlerKinds :
          ApiHandlerStart(k, shop, kind)
    \/ \E k \in 1..MaxHandlers : SetSandbox(k)
    \/ \E k \in 1..MaxHandlers : CallApi(k)
    \/ \E k \in 1..MaxHandlers : ApiHandlerEnd(k)

SpecSandbox == InitSandbox /\ [][NextSandbox]_vars

\* C21: every marketplace request issued for a shop goes to the base URL that
\* the issandbox flag of the shop's own company row selects.
C21_OwnSandboxFlag ==
    \A r \in api.requests : r.baseUrl = baseUrlOf(IsSandboxOf[r.shop])

\* ---------------------------------------------------------------- SpecWorker: job accounting of one worker
\* One Worker object (worker.js:16-22) and the handlers it runs.  Each of the
\* four handlers has the shape
\*     try { this.activeJobs++; this.status = ...; ... }
\*     catch (error) { throw error; }
\*     finally { this.activeJobs--; this.status = activeJobs === 0 ? 'idle' : status; }
\* and the process's SIGINT / SIGTERM handler calls process.exit(0).
MaxStarts == 4       \* handler invocations of one worker process

\* this.status set at the start of each handler.
StatusOf == [collect   |-> "processing-orders",  details   |-> "processing-details",
             shipment  |-> "processing-shipment", inventory |-> "updating-inventory"]

\* new Worker() (worker.js:17-22).  h: the handler invocations in flight;
\* started / returned / threw count invocations; exited: process.exit was called.
WorkerInit ==
    [activeJobs |-> 0, status |-> "idle", h |-> [k \in 1..MaxHandlers |-> "idle"],
     started |-> 0, returned |-> 0, threw |-> 0, exited |-> FALSE]

\* A handler whose decrement is in the try block after the work: it is skipped
\* when the work throws.
decrementOnReturn(w, threw) ==
    IF threw THEN w
    ELSE [w EXCEPT !.activeJobs = @ - 1,
                   !.status = IF w.activeJobs - 1 = 0 THEN "idle" ELSE @]

\* finally { this.activeJobs--; this.status = ... } (worker.js:139-143)
finallyBlock(w, threw) ==
    [w EXCEPT !.activeJobs = @ - 1,
              !.status = IF w.activeJobs - 1 = 0 THEN "idle" ELSE @]

\* A handler is invoked for a job: this.activeJobs++ (worker.js:50-53).
WkHandlerStart(k, kind) ==
    /\ ~wk.exited
    /\ wk.h[k] = "idle"
    /\ wk.started < MaxStarts
    /\ wk' = [wk EXCEPT !.activeJobs = @ + 1, !.status = StatusOf[kind],
                        !.h[k] = kind, !.started = @ + 1]
    /\ UNCHANGED <<db, last, txs, stepD, sched, queue, running, co, api, sup, master, sig, tick, tok, rt, pipe>>

\* The handler returns its result (worker.js:134, 139-143).
WkHandlerReturn(k) ==
    /\ ~wk.exited
    /\ wk.h[k] # "idle"
    /\ wk' = finallyBlock([wk EXCEPT !.h[k] = "idle", !.returned = @ + 1], FALSE)
    /\ UNCHANGED <<db, last, txs, stepD, sched, queue, running, co, api, sup, master, sig, tick, tok, rt, pipe>>

\* The handler throws: catch rethrows, finally runs (worker.js:135-143).
WkHandlerThrow(k) ==
    /\ ~wk.exited
    /\ wk.h[k] # "idle"
    /\ wk' = finallyBlock([wk EXCEPT !.h[k] = "idle", !.threw = @ + 1], TRUE)
    /\ UNCHANGED <<db, last, txs, stepD, sched, queue, running, co, api, sup, master, sig, tick, tok, rt, pipe>>

\* SIGINT or SIGTERM arrives: the handler logs and calls process.exit(0)
\* (worker.js:398-407, 418-427).
WkSignal ==
    /\ ~wk.exited
    /\ wk' = [wk EXCEPT !.exited = TRUE]
    /\ UNCHANGED <<db, last, txs, stepD, sched, queue, running, co, api, sup, master, sig, tick, tok, rt, pipe>>

InitWorker ==
    /\ db = EmptyDb
    /\ last = LastInit
    /\ tick = <<>>
    /\ tok = <<>>
    /\ rt = <<>>
    /\ pipe = <<>>
    /\ txs = <<>>
    /\ stepD = <<>>
    /\ sched = <<>>
    /\ queue = <<>>
    /\ running = <<>>
    /\ co = <<>>
    /\ api = <<>>
    /\ wk = WorkerInit
    /\ sup = <<>>
    /\ master = <<>>
    /\ sig = <<>>

NextWorker ==
    \/ \E k \in 1..MaxHandlers, kind \in DOMAIN StatusOf : WkHandlerStart(k, kind)
    \/ \E k \in 1..MaxHandlers : WkHandlerReturn(k)
    \/ \E k \in 1..MaxHandlers : WkHandlerThrow(k)
    \/ WkSignal

SpecWorker == InitWorker /\ [][NextWorker]_vars

\* The handler invocations in flight.
InFlight(w) == {k \in 1..MaxHandlers : w.h[k] # "idle"}

\* activeJobs counts the handlers started and not finished.
C23_Count ==
    /\ wk.activeJobs = Cardinality(InFlight(wk))
    /\ wk.activeJobs = wk.started - (wk.returned + wk.threw)
    /\ wk.activeJobs >= 0
    /\ (wk.activeJobs = 0) = (InFlight(wk) = {})

\* A step that ends a handler, by return or by throw, takes exactly 1 off.
C23_Step ==
    wk'.returned + wk'.threw = wk.returned + wk.threw + 1 =>
        wk'.activeJobs = wk.activeJobs - 1

\* C23: activeJobs equals the number of handlers started and not yet finished,
\* is never negative, is 0 exactly when no handler is in flight, and goes down
\* by exactly one when a handler ends, whether it returns or throws.
C23_JobAccounting == [](C23_Count) /\ [][C23_Step]_vars

\* C23 witness: handlers have ended both ways, one is still in flight while
\* another has just been started after them.
C23_Witness ==
    /\ wk.returned >= 1 /\ wk.threw >= 1
    /\ wk.activeJobs = 2 /\ Cardinality(InFlight(wk)) = 2

\* C25: a worker process that has exited on SIGINT / SIGTERM had no handler in
\* flight when it exited.
C25_ExitAfterHandlers == wk.exited => InFlight(wk) = {}

\* ---------------------------------------------------------------- SpecShutdown: handleShutdown of the supervisor
\* The single-process supervisor (index.js): the scheduler's cron job is active
\* after main(); SIGINT / SIGTERM runs handleShutdown, which awaits closeQueues()
\* (four queue.close() calls, one after another), then calls
\* orderScheduler.stop(), then sets the 3 s exit timer.  Cron ticks are callbacks
\* of the same event loop and run whenever handleShutdown is suspended at an await.
MaxTicks == 3        \* cron ticks of one run
NumQueues == 4       \* orderCollection, orderDetail, shipmentInfo, inventory

\* pc       : running -> closing -> closed -> waiting -> exited
\* cron     : the cron job is scheduled and not stopped
\* closed   : queue.close() calls of closeQueues that have resolved
\* isRunning: OrderScheduler.isRunning
\* ticks    : cron ticks that began a pass; lateTicks: those begun after
\*            closeQueues was called; rejected: passes whose queue.add met a
\*            closing queue
SupInit == [pc |-> "running", cron |-> TRUE, closed |-> 0, isRunning |-> FALSE,
            ticks |-> 0, lateTicks |-> 0, rejected |-> 0]

\* handleShutdown is invoked and calls closeQueues(): the first queue.close()
\* is issued (index.js:218-224, config.js:240-242).
ShutdownSignal ==
    /\ sup.pc = "running"
    /\ sup' = [sup EXCEPT !.pc = "closing"]
    /\ UNCHANGED <<db, last, txs, stepD, sched, queue, running, co, api, wk, master, sig, tick, tok, rt, pipe>>

\* One await queue.close() of closeQueues resolves (config.js:242-245).
CloseQueue ==
    /\ sup.pc = "closing"
    /\ sup' = [sup EXCEPT !.closed = @ + 1,
                          !.pc = IF sup.closed + 1 = NumQueues THEN "closed" ELSE "closing"]
    /\ UNCHANGED <<db, last, txs, stepD, sched, queue, running, co, api, wk, master, sig, tick, tok, rt, pipe>>

\* After closeQueues: orderScheduler.stop() and setTimeout(exit, 3000)
\* (index.js:229-241, orderScheduler.js:239-244).
StopScheduler ==
    /\ sup.pc = "closed"
    /\ sup' = [sup EXCEPT !.cron = FALSE, !.pc = "waiting"]
    /\ UNCHANGED <<db, last, txs, stepD, sched, queue, running, co, api, wk, master, sig, tick, tok, rt, pipe>>

\* The 3 s timer fires: process.exit(0) (index.js:238-241).
ExitTimer ==
    /\ sup.pc = "waiting"
    /\ sup' = [sup EXCEPT !.pc = "exited"]
    /\ UNCHANGED <<db, last, txs, stepD, sched, queue, running, co, api, wk, master, sig, tick, tok, rt, pipe>>

\* The cron job fires and the callback begins a pass (orderScheduler.js:29-40).
CronTick ==
    /\ sup.pc # "exited"
    /\ sup.cron
    /\ ~sup.isRunning
    /\ sup.ticks < MaxTicks
    /\ sup' = [sup EXCEPT !.isRunning = TRUE, !.ticks = @ + 1,
                          !.lateTicks = IF sup.pc # "running" THEN @ + 1 ELSE @]
    /\ UNCHANGED <<db, last, txs, stepD, sched, queue, running, co, api, wk, master, sig, tick, tok, rt, pipe>>

\* The pass adds its jobs and ends (orderScheduler.js:50-63, 143-185): an add on
\* a queue being closed is rejected, caught and logged.
CronPassEnd ==
    /\ sup.pc # "exited"
    /\ sup.isRunning
    /\ sup' = [sup EXCEPT !.isRunning = FALSE,
                          !.rejected = IF sup.pc # "running" THEN @ + 1 ELSE @]
    /\ UNCHANGED <<db, last, txs, stepD, sched, queue, running, co, api, wk, master, sig, tick, tok, rt, pipe>>

InitShutdown ==
    /\ db = EmptyDb
    /\ last = LastInit
    /\ tick = <<>>
    /\ tok = <<>>
    /\ rt = <<>>
    /\ pipe = <<>>
    /\ txs = <<>>
    /\ stepD = <<>>
    /\ sched = <<>>
    /\ queue = <<>>
    /\ running = <<>>
    /\ co = <<>>
    /\ api = <<>>
    /\ wk = <<>>
    /\ sup = SupInit
    /\ master = <<>>
    /\ sig = <<>>

NextShutdown ==
    \/ ShutdownSignal
    \/ CloseQueue
    \/ StopScheduler
    \/ ExitTimer
    \/ CronTick
    \/ CronPassEnd

SpecShutdown == InitShutdown /\ [][NextShutdown]_vars

\* C24: once queue shutdown has begun the scheduler has been stopped, and no
\* cron tick has begun a pass since.
C24_SchedulerStoppedFirst ==
    sup.pc # "running" => ~sup.cron /\ sup.lateTicks = 0

\* ---------------------------------------------------------------- SpecMaster: the cluster master and its workers
\* Master (master.js): initCluster forks WORKERS_COUNT workers, status messages
\* of a worker fill workerMap, the cluster's 'exit' event runs handleWorkerExit,
\* and shutdown disconnects every worker.
WORKERS_COUNT == 2   \* config.cluster.workers (the number of CPUs by default), scaled
MaxExits == 3        \* worker exits of one run

\* workers     : ids of the live workers (cluster.workers)
\* workerMap   : keys of Master.workerMap
\* disconnected: workers on which worker.disconnect() was called
\* nextId      : id cluster.fork() gives the next worker
\* forks, exits: calls of cluster.fork(), 'exit' events handled
\* lastExit    : the worker, code and exitedAfterDisconnect of the last 'exit'
NoExit == [id |-> 0, code |-> 0, exitedAfterDisconnect |-> FALSE]

MasterInit == [pc |-> "new", workers |-> {}, workerMap |-> {}, disconnected |-> {},
               nextId |-> 1, forks |-> 0, exits |-> 0, lastExit |-> NoExit]

\* cluster.fork(): a new worker with the next id.
fork(m) == [m EXCEPT !.workers = @ \cup {m.nextId}, !.nextId = @ + 1, !.forks = @ + 1]

RECURSIVE forkTimes(_, _)
forkTimes(m, n) == IF n = 0 THEN m ELSE forkTimes(fork(m), n - 1)

\* A master that replaces every worker that exits.
restartAlways(code, exitedAfterDisconnect) == TRUE

\* code !== 0 && !worker.exitedAfterDisconnect (master.js:133)
shouldRestart(code, exitedAfterDisconnect) == code # 0 /\ ~exitedAfterDisconnect

\* handleWorkerExit(worker, code, signal) (master.js:126-144)
handleWorkerExit(m, worker, code, exitedAfterDisconnect) ==
    LET m1 == [m EXCEPT !.workerMap = @ \ {worker}]
    IN  IF shouldRestart(code, exitedAfterDisconnect) THEN fork(m1) ELSE m1

\* initCluster (master.js:149-168)
InitCluster ==
    /\ master.pc = "new"
    /\ master' = forkTimes([master EXCEPT !.pc = "started"], WORKERS_COUNT)
    /\ UNCHANGED <<db, last, txs, stepD, sched, queue, running, co, api, wk, sup, sig, tick, tok, rt, pipe>>

\* A status message of a live worker arrives (master.js:105-118).
WorkerStatus(worker) ==
    /\ worker \in master.workers
    /\ worker \notin master.workerMap
    /\ master' = [master EXCEPT !.workerMap = @ \cup {worker}]
    /\ UNCHANGED <<db, last, txs, stepD, sched, queue, running, co, api, wk, sup, sig, tick, tok, rt, pipe>>

\* shutdown: worker.disconnect() on every worker (master.js:196-206).
MasterShutdown ==
    /\ master.pc = "started"
    /\ master' = [master EXCEPT !.pc = "shutdown", !.disconnected = master.workers]
    /\ UNCHANGED <<db, last, txs, stepD, sched, queue, running, co, api, wk, sup, sig, tick, tok, rt, pipe>>

\* A worker process ends with the given code; the cluster removes it from
\* cluster.workers and emits 'exit' (master.js:165-167).
WorkerExit(worker, code) ==
    LET exitedAfterDisconnect == worker \in master.disconnected
    IN  /\ worker \in master.workers
        /\ master.exits < MaxExits
        /\ master' = handleWorkerExit(
                         [master EXCEPT !.workers = @ \ {worker},
                                        !.disconnected = @ \ {worker},
                                        !.exits = @ + 1,
                                        !.lastExit = [id |-> worker, code |-> code,
                                                      exitedAfterDisconnect |-> exitedAfterDisconnect]],
                         worker, code, exitedAfterDisconnect)
        /\ UNCHANGED <<db, last, txs, stepD, sched, queue, running, co, api, wk, sup, sig, tick, tok, rt, pipe>>

WorkerIds == 1..(WORKERS_COUNT + MaxExits)

InitMaster ==
    /\ db = EmptyDb
    /\ last = LastInit
    /\ tick = <<>>
    /\ tok = <<>>
    /\ rt = <<>>
    /\ pipe = <<>>
    /\ txs = <<>>
    /\ stepD = <<>>
    /\ sched = <<>>
    /\ queue = <<>>
    /\ running = <<>>
    /\ co = <<>>
    /\ api = <<>>
    /\ wk = <<>>
    /\ sup = <<>>
    /\ master = MasterInit
    /\ sig = <<>>

NextMaster ==
    \/ InitCluster
    \/ \E worker \in WorkerIds : WorkerStatus(worker)
    \/ MasterShutdown
    \/ \E worker \in WorkerIds, code \in {0, 1} : WorkerExit(worker, code)

SpecMaster == InitMaster /\ [][NextMaster]_vars

\* A step in which the master handles the exit of a worker.
C29_Step ==
    master'.exits = master.exits + 1 =>
        LET e == master'.lastExit
        IN  /\ e.id \in master.workers
            /\ e.id \notin master'.workerMap
            /\ IF e.code # 0 /\ ~e.exitedAfterDisconnect
               THEN /\ master'.forks = master.forks + 1
                    /\ \E n \in WorkerIds \ master.workers :
                           master'.workers = (master.workers \ {e.id}) \cup {n}
               ELSE /\ master'.forks = master.forks
                    /\ master'.workers = master.workers \ {e.id}

\* C29: when a worker exits with a code other than 0 and not after a
\* disconnect, the master removes it from workerMap and forks exactly one
\* replacement; when it exits with code 0 or after a disconnect, the master
\* removes it and forks nothing.
C29_AutoRestart == [][C29_Step]_vars

\* C29 witness: a reported worker crashed and was replaced, and then a worker
\* exited with code 0 and was not.
C29_Witness ==
    /\ master.exits = 2
    /\ master.forks = WORKERS_COUNT + 1
    /\ master.lastExit.code = 0
    /\ Cardinality(master.workers) = WORKERS_COUNT - 1

\* ---------------------------------------------------------------- SpecSign: _generateSignature
\* Two calls of ShopeeApi._generateSignature on (partner_id, path, timestamp,
\* access_token, shop_id).  Strings are TLA+ strings, \o is JavaScript's +;
\* an absent optional argument is NULL for the access token and 0 for the shop id
\* ('' by default; every falsy value takes the same branch).  HMAC-SHA256 is the pair of its key and
\* its message: two digests are equal exactly when both are.
PartnerKey  == "key"
PartnerIds  == {"1", "12"}
Paths       == {"/api/v2/a", "2/api/v2/a"}
Timestamps  == {7, 70}
AccessTokens == {NULL, "t", "t9"}
ShopIds     == {NoId, 9, 90}

SignInputs ==
    [partnerId : PartnerIds, path : Paths, timestamp : Timestamps,
     accessToken : AccessTokens, shopId : ShopIds]

Digit == <<"0", "1", "2", "3", "4", "5", "6", "7", "8", "9">>

\* `${n}` for a non-negative integer: its decimal digits.
RECURSIVE toDecimal(_)
toDecimal(n) == IF n < 10 THEN Digit[n + 1] ELSE toDecimal(n \div 10) \o Digit[(n % 10) + 1]

\* A signed string that leaves the shop id out.
baseStringNoShop(partnerId, path, timestamp, accessToken, shopId) ==
    LET s1 == partnerId \o path \o toDecimal(timestamp)
    IN  IF accessToken # NULL THEN s1 \o accessToken ELSE s1

\* baseString of _generateSignature (shopeeApi.js:43-51)
baseString(partnerId, path, timestamp, accessToken, shopId) ==
    LET s1 == partnerId \o path \o toDecimal(timestamp)
        s2 == IF accessToken # NULL THEN s1 \o accessToken ELSE s1
    IN  IF shopId # NoId THEN s2 \o toDecimal(shopId) ELSE s2

\* crypto.createHmac('sha256', partnerKey).update(baseString).digest('hex')
\* (shopeeApi.js:54-56)
hmac(key, message) == <<key, message>>

\* _generateSignature(path, timestamp, accessToken, shopId) of an object with
\* the given partnerId (shopeeApi.js:39-61): the string signed and the signature.
generateSignature(in) ==
    LET b == baseString(in.partnerId, in.path, in.timestamp, in.accessToken, in.shopId)
    IN  [baseString |-> b, sign |-> hmac(PartnerKey, b)]

NoSignature == [baseString |-> NULL, sign |-> NULL]

\* The call c ("a" or "b") is made.
GenerateSignature(c) ==
    /\ sig.out[c] = NoSignature
    /\ sig' = [sig EXCEPT !.out[c] = generateSignature(sig.in[c])]
    /\ UNCHANGED <<db, last, txs, stepD, sched, queue, running, co, api, wk, sup, master, tick, tok, rt, pipe>>

InitSign ==
    /\ db = EmptyDb
    /\ last = LastInit
    /\ tick = <<>>
    /\ tok = <<>>
    /\ rt = <<>>
    /\ pipe = <<>>
    /\ txs = <<>>
    /\ stepD = <<>>
    /\ sched = <<>>
    /\ queue = <<>>
    /\ running = <<>>
    /\ co = <<>>
    /\ api = <<>>
    /\ wk = <<>>
    /\ sup = <<>>
    /\ master = <<>>
    /\ \E a \in SignInputs, b \in SignInputs :
          sig = [in |-> [a |-> a, b |-> b], out |-> [a |-> NoSignature, b |-> NoSignature]]

NextSign == \E c \in {"a", "b"} : GenerateSignature(c)

SpecSign == InitSign /\ [][NextSign]_vars

\* The components of the tuple on which two inputs differ.
C28_Differing(a, b) == {f \in DOMAIN a : a[f] # b[f]}

\* The text an optional component adds to the signed string.
C28_TextOf(x) == IF x \in {NULL, ""} THEN "" ELSE x

C28_NumberTextOf(n) == IF n = 0 THEN "" ELSE toDecimal(n)

\* C28: the signed string is partner_id, path, timestamp, access_token and
\* shop_id joined in that order, an absent optional one adding nothing; two
\* calls on equal tuples give equal signatures; two calls on tuples that differ
\* in exactly one component sign different strings.
C28_SigningDeterminism ==
    LET a == sig.in.a
        b == sig.in.b
    IN  /\ sig.out.a # NoSignature =>
              sig.out.a.baseString =
                  a.partnerId \o (a.path \o (toDecimal(a.timestamp)
                      \o (C28_TextOf(a.accessToken) \o C28_NumberTextOf(a.shopId))))
        /\ sig.out.a # NoSignature /\ sig.out.b # NoSignature =>
              /\ a = b => sig.out.a.sign = sig.out.b.sign
              /\ Cardinality(C28_Differing(a, b)) = 1 =>
                     sig.out.a.baseString # sig.out.b.baseString

\* C28 witness: both calls are made, on tuples that differ in the shop id only,
\* one of them without shop id, and sign different strings.
C28_Witness ==
    /\ sig.out.a # NoSignature /\ sig.out.b # NoSignature
    /\ C28_Differing(sig.in.a, sig.in.b) = {"shopId"}
    /\ sig.in.a.shopId = NoId
    /\ sig.out.a.sign # sig.out.b.sign

\* ---------------------------------------------------------------- SpecSurrogate: where tracking numbers come from
\* The two places of the source that put something other than a tracking number
\* of the marketplace into tracking_no: _processUnupdatedTrackingNumbers of
\* orderService.js, and _fetchAllShipmentInfo of the earlier order service
\* (unnamed/part_003), whose shipmentMap entries _processOrderDetails hands to
\* upsertOrder as orderData.shipping.
PackageNumbers == {"PKG1"}

\* The order details of this specification: those of Details with one item.
SurrogateDetails == {D \in Details : Len(D.items) = 1}

\* What getMassTrackingInfo lists for an order (part_003:394-409).
MassTrackings == [tracking_number : {NULL, "TN1"}, logistics_channel_name : {NULL, "SPX"}]

\* The entry of updatedOrders that _processUnupdatedTrackingNumbers pushes for
\* order o on the answer trackingInfo (orderService.js:726-797): <<>> when it
\* pushes none.
unupdatedEntry(o, trackingInfo) ==
    LET trackingNumber == trackingNumberOf(trackingInfo)
    IN  IF ~trackingInfo.response THEN <<>>
        ELSE IF ~Falsy(trackingNumber)
             THEN <<[orderSn |-> o.order_num, orderId |-> o.id,
                     trackingNumber |-> trackingNumber,
                     carrierName |-> carrierNameOf(trackingInfo)]>>
        ELSE IF o.status = "SHIPPED"
             THEN <<[orderSn |-> o.order_num, orderId |-> o.id,
                     trackingNumber |-> o.order_num, carrierName |-> NULL]>>
        ELSE <<>>

\* The loop of _processUnupdatedTrackingNumbers over the rows of its SELECT.
\* (The code saves after every 10 lookups; the entries are of different orders.)
RECURSIVE saveUnupdated(_, _, _)
saveUnupdated(r, todo, trackingOf) ==
    IF todo = {} THEN r
    ELSE LET o == CHOOSE x \in todo : TRUE
         IN  saveUnupdated(
                 saveTrackingNumbers(r, unupdatedEntry(o, trackingOf[o.order_num]), 1, "none"),
                 todo \ {o}, trackingOf)

\* _processUnupdatedTrackingNumbers(shop) (orderService.js:689-820): the orders
\* in PROCESSED or SHIPPED whose logistic row is missing or has no tracking_no.
processUnupdatedTrackingNumbers(d, trackingOf) ==
    LET unupdatedOrders ==
            {o \in d.orders :
                /\ o.status \in {"PROCESSED", "SHIPPED"}
                /\ \A l \in SelectLogistic(d, o.id) : Falsy(l.tracking_no)}
    IN  saveUnupdated(SaveStart(d), unupdatedOrders, trackingOf)

\* The shipmentMap entry of _fetchAllShipmentInfo for an order of the shipment
\* list, after _processTrackingInfoBatch (part_003:328-337, 403-409).
shipmentMapEntry(packageNumber, massTracking) ==
    [present               |-> TRUE,
     shipping_carrier_name |-> Or(massTracking.logistics_channel_name, NULL),
     tracking_number       |-> Or(massTracking.tracking_number, packageNumber),
     histories             |-> <<>>]

\* _processUnupdatedTrackingNumbers runs for the shop.
ProcessUnupdated(trackingOf) ==
    LET r == processUnupdatedTrackingNumbers(db, trackingOf)
    IN  /\ db' = r.db
        /\ last' = [LastInit EXCEPT !.op = "unupdated", !.saved = r.savedCount]
        /\ UNCHANGED <<txs, stepD, sched, queue, running, co, api, wk, sup, master, sig, tick, tok, rt, pipe>>

\* save-order-tx of the earlier _processOrderDetails: shipping is the
\* shipmentMap entry of the order (part_003:205-240).
SaveOrderWithShipment(orderData, packageNumber, massTracking) ==
    LET shipping == shipmentMapEntry(packageNumber, massTracking)
        t == upsertOrder(db, [orderData EXCEPT !.shipping = shipping], "none")
    IN  /\ db' = Committed(db, t)
        /\ last' = [LastInit EXCEPT !.op = "upsertOrder",
                                    !.thrown = t.thrown, !.aborted = t.aborted]
        /\ UNCHANGED <<txs, stepD, sched, queue, running, co, api, wk, sup, master, sig, tick, tok, rt, pipe>>

NextSurrogate ==
    \/ \E orderData \in SurrogateDetails : SaveOrderTx(orderData, "none")
    \/ \E trackingOf \in [OrderSns -> TrackingInfos \cup {NoTrackingInfo}] :
          ProcessUnupdated(trackingOf)
    \/ \E orderData \in SurrogateDetails, packageNumber \in PackageNumbers,
          massTracking \in MassTrackings :
          SaveOrderWithShipment(orderData, packageNumber, massTracking)

SpecSurrogate == Init /\ [][NextSurrogate]_vars

\* C26: no logistic or item row holds a package number or an order number as
\* its tracking_no.
C26_NoSurrogateTracking ==
    /\ \A l \in db.logistics : l.tracking_no \notin OrderSns \cup PackageNumbers
    /\ \A r \in db.items : r.tracking_no \notin OrderSns \cup PackageNumbers

\* ---------------------------------------------------------------- SpecTick: the cron callback

\* The callback that start() hands to cron.schedule (orderScheduler.js:29-64),
\* one step per await.  pc is the position of the one invocation that holds
\* isRunning; seen collects the ways invocations have left the try block.
TickInit ==
    [isRunning |-> FALSE, pc |-> "idle", pending |-> {}, rejected |-> {},
     threw |-> FALSE, seen |-> {}, ticks |-> 0, skipped |-> 0]

\* A callback that clears the flag at the end of the try block only.
clearAfterTry(t) ==
    [t EXCEPT !.isRunning = IF t.threw THEN @ ELSE FALSE, !.pc = "idle"]

\* catch (error) { log } finally { this.isRunning = false }
\* (orderScheduler.js:59-63): the flag is cleared however the try was left.
tickFinally(t) ==
    [t EXCEPT !.isRunning = FALSE, !.pc = "idle"]

\* The cron expression fires: skipped while isRunning (orderScheduler.js:31-34),
\* otherwise isRunning = true and getActiveShops is awaited (:36-40).
TickFire ==
    /\ IF tick.isRunning
       THEN /\ tick.skipped < MaxDrops
            /\ tick' = [tick EXCEPT !.skipped = @ + 1]
       ELSE /\ tick.ticks < MaxTicks
            /\ tick' = [tick EXCEPT !.isRunning = TRUE, !.pc = "shops",
                                    !.threw = FALSE, !.rejected = {},
                                    !.ticks = @ + 1]
    /\ UNCHANGED <<db, last, txs, stepD, sched, queue, running, co, api, wk, sup, master, sig, tok, rt, pipe>>

\* await shopRepository.getActiveShops(...) settles (orderScheduler.js:40-47):
\* it rejects (catch, finally), or answers no shop (isRunning = false; return;
\* finally), or answers shops whose jobs are then added, one promise per shop
\* (:51-56, :113-134).
TickShops(shops, threw) ==
    /\ tick.pc = "shops"
    /\ tick' = IF threw
               THEN tickFinally([tick EXCEPT !.threw = TRUE,
                                             !.seen = @ \cup {"lookupThrew"}])
               ELSE IF shops = {}
               THEN tickFinally([tick EXCEPT !.isRunning = FALSE,
                                             !.seen = @ \cup {"noShops"}])
               ELSE [tick EXCEPT !.pc = "adding", !.pending = shops]
    /\ UNCHANGED <<db, last, txs, stepD, sched, queue, running, co, api, wk, sup, master, sig, tok, rt, pipe>>

\* One shop's promise of _addOrderCollectionJobsToQueue or of
\* _collectOrdersForShops settles; a rejected add is caught per shop
\* (orderScheduler.js:113-130), so Promise.all resolves once all have settled
\* and the callback leaves the try statement (:58-64).
TickAddSettled(shop, ok) ==
    /\ tick.pc = "adding"
    /\ shop \in tick.pending
    /\ LET pending == tick.pending \ {shop}
           rejected == IF ok THEN tick.rejected ELSE tick.rejected \cup {shop}
           t == [tick EXCEPT !.pending = pending, !.rejected = rejected]
       IN  tick' = IF pending = {}
                   THEN tickFinally([t EXCEPT !.seen = @ \cup
                           {IF rejected = {} THEN "added" ELSE "addRejected"}])
                   ELSE t
    /\ UNCHANGED <<db, last, txs, stepD, sched, queue, running, co, api, wk, sup, master, sig, tok, rt, pipe>>

InitTick ==
    /\ db = EmptyDb
    /\ last = LastInit
    /\ txs = <<>>
    /\ stepD = <<>>
    /\ sched = <<>>
    /\ queue = <<>>
    /\ running = <<>>
    /\ co = <<>>
    /\ api = <<>>
    /\ wk = <<>>
    /\ sup = <<>>
    /\ master = <<>>
    /\ sig = <<>>
    /\ tick = TickInit
    /\ tok = <<>>
    /\ rt = <<>>
    /\ pipe = <<>>

\* The continuations of the invocation that holds isRunning.
TickProgress ==
    \/ \E shops \in SUBSET Shops, threw \in BOOLEAN : TickShops(shops, threw)
    \/ \E shop \in Shops, ok \in BOOLEAN : TickAddSettled(shop, ok)

NextTick ==
    \/ TickFire
    \/ \E shops \in SUBSET Shops, threw \in BOOLEAN : TickShops(shops, threw)
    \/ \E shop \in Shops, ok \in BOOLEAN : TickAddSettled(shop, ok)

\* Every awaited call of the callback settles (the pg query and the Bull add
\* resolve or reject), and the event loop then runs the continuation: weak
\* fairness on the continuations.  The cron firing itself gets no fairness.
SpecTick == InitTick /\ [][NextTick]_vars /\ WF_vars(TickProgress)

\* C31: whenever a cron tick has set isRunning, isRunning becomes false again,
\* whichever way the callback leaves its try block (no active shop, adds
\* settled, lookup rejected, an add rejected); between invocations the flag is
\* clear, so a later tick passes the guard.
C31_TickReleases ==
    /\ [](tick.pc = "idle" => ~tick.isRunning)
    /\ (tick.isRunning ~> ~tick.isRunning)

\* A later tick ran to its end after an earlier tick's shop lookup had
\* rejected and another tick had seen an add reject.
C31_Witness ==
    /\ tick.ticks = MaxTicks
    /\ tick.pc = "idle"
    /\ ~tick.isRunning
    /\ {"lookupThrew", "addRejected", "added"} \subseteq tick.seen

\* ---------------------------------------------------------------- SpecToken: validateToken

\* One call of validateToken(shop) (shopeeApi.js:419-472) on the stored row of
\* the shop; expire_at 0 stands for a row without expiry.
TokenShops ==
    [access_token  : {NULL, "T1"},
     expire_at     : {0, now + 100, now + 1000},
     refresh_token : {NULL, "R1"}]

\* What /auth/access_token/get answers (shopeeApi.js:181-187).
TokenResponses ==
    [access_token  : {NULL, "T2"},
     refresh_token : {NULL, "R2"},
     expire_in     : {100, 1000}]

\* tok.shop    : the row validateToken was called with
\* tok.stored  : the row of shopee_shop
\* tok.cause   : why the refresh failed
\* tok.requests: refresh requests sent;  tok.updates: updateShopToken calls
TokInit(shop) ==
    [pc |-> "idle", shop |-> shop, stored |-> shop, cause |-> "none",
     requests |-> 0, updates |-> 0, response |-> NULL, result |-> NULL]

\* A check that lets every response through.
anyResponse(tokenResponse) == TRUE

\* if (!tokenResponse.access_token) throw (shopeeApi.js:435-437)
hasAccessToken(tokenResponse) == ~Falsy(tokenResponse.access_token)

\* validateToken up to the refresh request (shopeeApi.js:419-433): a valid token
\* returns the shop as it is; without refresh token it throws; otherwise
\* refreshAccessToken is called.
ValidateToken ==
    /\ tok.pc = "idle"
    /\ tok' = IF ~NeedsRefresh(tok.shop)
              THEN [tok EXCEPT !.pc = "returned", !.result = tok.shop]
              ELSE IF Falsy(tok.shop.refresh_token)
              THEN [tok EXCEPT !.pc = "thrown", !.cause = "noRefreshToken"]
              ELSE [tok EXCEPT !.pc = "refreshing", !.requests = @ + 1]
    /\ UNCHANGED <<db, last, txs, stepD, sched, queue, running, co, api, wk, sup, master, sig, tick, rt, pipe>>

\* await this.refreshAccessToken(...) settles (shopeeApi.js:433-448): it throws,
\* or answers; an answer without access_token throws, any other is handed to
\* shopRepository.updateShopToken.
RefreshSettled(threw, tokenResponse) ==
    /\ tok.pc = "refreshing"
    /\ tok' = IF threw
              THEN [tok EXCEPT !.pc = "thrown", !.cause = "refreshThrew"]
              ELSE LET t == [tok EXCEPT !.response = tokenResponse,
                                        !.cause = IF Falsy(tokenResponse.access_token)
                                                  THEN "noAccessToken" ELSE "none"]
                   IN  IF hasAccessToken(tokenResponse)
                       THEN [t EXCEPT !.pc = "updating", !.updates = @ + 1]
                       ELSE [t EXCEPT !.pc = "thrown"]
    /\ UNCHANGED <<db, last, txs, stepD, sched, queue, running, co, api, wk, sup, master, sig, tick, rt, pipe>>

\* await shopRepository.updateShopToken(shop.id, tokenInfo) settles
\* (shopeeApi.js:440-457, shopRepository.js:35-66): the UPDATE writes the three
\* columns and validateToken returns the shop with the new values, or the
\* UPDATE is rejected and validateToken throws.
UpdateSettled(ok) ==
    LET tokenInfo == [access_token  |-> tok.response.access_token,
                      refresh_token |-> tok.response.refresh_token,
                      expire_at     |-> now + tok.response.expire_in]
    IN  /\ tok.pc = "updating"
        /\ tok' = IF ok
                  THEN [tok EXCEPT !.pc = "returned", !.stored = tokenInfo,
                                   !.result = tokenInfo]
                  ELSE [tok EXCEPT !.pc = "thrown", !.cause = "updateThrew"]
        /\ UNCHANGED <<db, last, txs, stepD, sched, queue, running, co, api, wk, sup, master, sig, tick, rt, pipe>>

InitToken ==
    /\ db = EmptyDb
    /\ last = LastInit
    /\ txs = <<>>
    /\ stepD = <<>>
    /\ sched = <<>>
    /\ queue = <<>>
    /\ running = <<>>
    /\ co = <<>>
    /\ api = <<>>
    /\ wk = <<>>
    /\ sup = <<>>
    /\ master = <<>>
    /\ sig = <<>>
    /\ tick = <<>>
    /\ \E shop \in TokenShops : tok = TokInit(shop)
    /\ rt = <<>>
    /\ pipe = <<>>

NextToken ==
    \/ ValidateToken
    \/ \E threw \in BOOLEAN, tokenResponse \in TokenResponses :
          RefreshSettled(threw, tokenResponse)
    \/ \E ok \in BOOLEAN : UpdateSettled(ok)

SpecToken == InitToken /\ [][NextToken]_vars

\* C36: when the refresh that validateToken needs fails (no refresh token, the
\* refresh call throws, or its answer has no access_token), validateToken throws,
\* updateShopToken is not called and the stored access token, refresh token and
\* expiry are the ones from before; without a refresh token no refresh request
\* is sent.
C36_RefreshFailureKeepsRow ==
    /\ tok.cause \in {"noRefreshToken", "refreshThrew", "noAccessToken"} =>
          /\ tok.pc = "thrown"
          /\ tok.updates = 0
          /\ tok.stored = tok.shop
    /\ tok.cause = "noRefreshToken" => tok.requests = 0
    /\ tok.pc = "thrown" => tok.stored = tok.shop

\* The refresh answered without access_token for a shop whose token had
\* expired, and validateToken has thrown.
C36_Witness ==
    /\ tok.pc = "thrown"
    /\ tok.cause = "noAccessToken"
    /\ tok.requests = 1
    /\ ~Falsy(tok.shop.access_token)

\* ---------------------------------------------------------------- SpecRetry: withRetry

\* One call of withRetry(fn, args, options) (retryUtils.js:15-52).
MaxRetriesOption == 2   \* largest options.maxRetries passed

\* options.maxRetries and options.initialDelay; 0 is also what an absent
\* initialDelay reads as under ||.
RetryOptions ==
    [maxRetries : 0..MaxRetriesOption, initialDelay : {0, 500}]

RetryErrors == {"e1", "e2"}

\* a || b of JavaScript on numbers.
OrNum(a, b) == IF a # 0 THEN a ELSE b

\* rt.calls: invocations of fn;  rt.waits: the delays waited, in order
RetryInit(options) ==
    [pc |-> "idle", options |-> options, maxRetries |-> 0, initialDelay |-> 0,
     attempt |-> 0, calls |-> 0, waits |-> <<>>, lastError |-> <<NULL, 0>>,
     thrown |-> <<NULL, 0>>, result |-> 0, refused |-> FALSE]

\* const maxRetries = options.maxRetries || config.scheduler.maxRetryCount || 3;
\* const initialDelay = options.initialDelay || 1000   (retryUtils.js:16-17)
WithRetry ==
    /\ rt.pc = "idle"
    /\ rt' = [rt EXCEPT !.pc = "call",
                        !.maxRetries = OrNum(rt.options.maxRetries, OrNum(maxRetryCount, 3)),
                        !.initialDelay = OrNum(rt.options.initialDelay, 1000)]
    /\ UNCHANGED <<db, last, txs, stepD, sched, queue, running, co, api, wk, sup, master, sig, tick, tok, pipe>>

\* await fn(...args) settles in the loop body (retryUtils.js:23-47): a result is
\* returned; an error is kept as lastError and the loop breaks on the last
\* attempt or when shouldRetry(error) is false, to throw lastError (:50-51);
\* otherwise it waits initialDelay * factor^attempt with factor 2.
FnSettled(error, shouldRetry) ==
    LET r == [rt EXCEPT !.calls = @ + 1]
    IN  /\ rt.pc = "call"
        /\ rt' = IF error = NULL
                 THEN [r EXCEPT !.pc = "returned", !.result = r.calls]
                 ELSE IF rt.attempt = rt.maxRetries \/ ~shouldRetry
                 THEN [r EXCEPT !.pc = "thrown", !.lastError = <<error, r.calls>>,
                                !.thrown = <<error, r.calls>>,
                                !.refused = ~shouldRetry]
                 ELSE [r EXCEPT !.pc = "wait", !.lastError = <<error, r.calls>>,
                                !.waits = Append(@, rt.initialDelay * (2 ^ rt.attempt))]
        /\ UNCHANGED <<db, last, txs, stepD, sched, queue, running, co, api, wk, sup, master, sig, tick, tok, pipe>>

\* The timer of the wait fires and the loop goes on: attempt++ (retryUtils.js:22, 46).
RetryWake ==
    /\ rt.pc = "wait"
    /\ rt' = [rt EXCEPT !.pc = "call", !.attempt = @ + 1]
    /\ UNCHANGED <<db, last, txs, stepD, sched, queue, running, co, api, wk, sup, master, sig, tick, tok, pipe>>

InitRetry ==
    /\ db = EmptyDb
    /\ last = LastInit
    /\ txs = <<>>
    /\ stepD = <<>>
    /\ sched = <<>>
    /\ queue = <<>>
    /\ running = <<>>
    /\ co = <<>>
    /\ api = <<>>
    /\ wk = <<>>
    /\ sup = <<>>
    /\ master = <<>>
    /\ sig = <<>>
    /\ tick = <<>>
    /\ tok = <<>>
    /\ \E options \in RetryOptions : rt = RetryInit(options)
    /\ pipe = <<>>

NextRetry ==
    \/ WithRetry
    \/ \E error \in RetryErrors \cup {NULL}, shouldRetry \in BOOLEAN :
          FnSettled(error, shouldRetry)
    \/ RetryWake

SpecRetry == InitRetry /\ [][NextRetry]_vars

\* C37: for every options.maxRetries >= 0, 0 included, withRetry invokes fn at
\* most maxRetries + 1 times; it returns the result of the first invocation
\* that succeeds, stops without a further wait when shouldRetry answers false,
\* and otherwise throws the error of the last invocation.
C37_AttemptBound ==
    /\ rt.calls <= rt.options.maxRetries + 1
    /\ rt.pc = "returned" => rt.result = rt.calls
    /\ rt.pc = "thrown" =>
          /\ rt.thrown[2] = rt.calls
          /\ Len(rt.waits) = rt.calls - 1
          /\ ~rt.refused => rt.calls = rt.options.maxRetries + 1

\* ---------------------------------------------------------------- SpecPipeline: queues and processors

\* The four Bull queues, the job names added to them and the processors that
\* the processes of a deployment register.
MaxPipeJobs == 3     \* jobs added by the scheduler and the collect API together

JobNames ==
    {"collect-shop-orders", "manual-order-collect", "process-order-details",
     "process-shipment-info", "update-inventory"}

\* The processors Worker.init registers (worker.js:349-377); the registration
\* of 'update-inventory' is commented out (worker.js:373-377).
workerProcessors ==
    {"collect-shop-orders", "manual-order-collect", "process-order-details",
     "process-shipment-info"}

\* The job a handler adds when it succeeds (worker.js:100-108, 190-197, 259-266).
FollowUp ==
    [n \in JobNames |->
        CASE n \in {"collect-shop-orders", "manual-order-collect"} -> "process-order-details"
          [] n = "process-order-details" -> "process-shipment-info"
          [] n = "process-shipment-info" -> "update-inventory"
          [] OTHER -> NULL]

\* pipe.mode      : "cluster" (config.cluster.enabled) or "single"
\* pipe.processors: job names with a processor registered in a running worker
\* pipe.scheduler : OrderScheduler.start() has scheduled its passes
\* pipe.waiting   : jobs waiting, per name;  pipe.completed, pipe.failed: jobs ended
PipeInit(mode) ==
    [mode |-> mode, started |-> FALSE, processors |-> {}, scheduler |-> FALSE,
     waiting |-> [n \in JobNames |-> 0], added |-> 0,
     completed |-> [n \in JobNames |-> 0], failed |-> 0]

\* main() (index.js:8-33): in cluster mode the master forks the workers, each of
\* which requires ./worker and runs Worker.init; in single-process mode the
\* process starts the scheduler and the API and loads no worker.
PipeMain ==
    /\ ~pipe.started
    /\ pipe' = IF pipe.mode = "cluster"
               THEN [pipe EXCEPT !.started = TRUE, !.processors = workerProcessors]
               ELSE [pipe EXCEPT !.started = TRUE, !.scheduler = TRUE]
    /\ UNCHANGED <<db, last, txs, stepD, sched, queue, running, co, api, wk, sup, master, sig, tick, tok, rt>>

\* A pass of the scheduler adds a 'collect-shop-orders' job
\* (orderScheduler.js:113-121, 160-168).
SchedulerAdd ==
    /\ pipe.scheduler
    /\ pipe.added < MaxPipeJobs
    /\ pipe' = [pipe EXCEPT !.added = @ + 1, !.waiting["collect-shop-orders"] = @ + 1]
    /\ UNCHANGED <<db, last, txs, stepD, sched, queue, running, co, api, wk, sup, master, sig, tick, tok, rt>>

\* POST /order/collect/:shopId adds a 'manual-order-collect' job
\* (index.js:138-147, master.js:63-72).
ManualCollect ==
    /\ pipe.started
    /\ pipe.added < MaxPipeJobs
    /\ pipe' = [pipe EXCEPT !.added = @ + 1, !.waiting["manual-order-collect"] = @ + 1]
    /\ UNCHANGED <<db, last, txs, stepD, sched, queue, running, co, api, wk, sup, master, sig, tick, tok, rt>>

\* A worker takes a waiting job of a name it has a processor for and runs the
\* handler to its end: the handler adds its follow-up job and the job
\* completes (a collection without orders adds none), or it throws.
PipeProcess(name, outcome) ==
    /\ name \in pipe.processors
    /\ pipe.waiting[name] > 0
    /\ outcome = "added" => FollowUp[name] # NULL
    /\ LET taken == [pipe EXCEPT !.waiting[name] = @ - 1]
       IN  pipe' = CASE outcome = "added" ->
                          [taken EXCEPT !.waiting[FollowUp[name]] = @ + 1,
                                        !.completed[name] = @ + 1]
                     [] outcome = "none" -> [taken EXCEPT !.completed[name] = @ + 1]
                     [] OTHER -> [taken EXCEPT !.failed = @ + 1]
    /\ UNCHANGED <<db, last, txs, stepD, sched, queue, running, co, api, wk, sup, master, sig, tick, tok, rt>>

InitPipeline ==
    /\ db = EmptyDb
    /\ last = LastInit
    /\ txs = <<>>
    /\ stepD = <<>>
    /\ sched = <<>>
    /\ queue = <<>>
    /\ running = <<>>
    /\ co = <<>>
    /\ api = <<>>
    /\ wk = <<>>
    /\ sup = <<>>
    /\ master = <<>>
    /\ sig = <<>>
    /\ tick = <<>>
    /\ tok = <<>>
    /\ rt = <<>>
    /\ \E mode \in {"cluster", "single"} : pipe = PipeInit(mode)

NextPipeline ==
    \/ PipeMain
    \/ SchedulerAdd
    \/ ManualCollect
    \/ \E name \in JobNames, outcome \in {"added", "none", "thrown"} :
          PipeProcess(name, outcome)

SpecPipeline == InitPipeline /\ [][NextPipeline]_vars

\* C40: every job that waits in one of the four queues has a name for which a
\* running worker has registered a processor, so that the job can be taken; a
\* job without one stays in its queue for good.
C40_EveryJobHasProcessor ==
    \A name \in JobNames : pipe.waiting[name] > 0 => name \in pipe.processors

====
